---- MODULE Spec2Model ----
(***************************************************************************)
(* Ordinance core: plugin registry, lifecycle (plugin_load /               *)
(* plugin_unload), event dispatch, the scheduler thread and Core.stop().   *)
(* Python threads interleave between bytecodes; every handler is cut into  *)
(* the steps between which another thread can observe or change the shared *)
(* registries.  The core takes no lock anywhere (src/core/__init__.py).    *)
(***************************************************************************)
EXTENDS Naturals, Integers, Sequences, FiniteSets, TLC

\* ------------------------------------------------------------------ bounds
\* number of lifecycle / dispatch calls a thread makes after the constructor returned
MaxCalls == 1
\* number of full scheduler ticks
MaxTicks == 1

\* ------------------------------------------------------------ plugin bundles
\* None (an empty registry slot); instance and module ids are >= 1
None == 0

\* fetch_all_qnames(): the key order of the three registries
QOrder == <<"q1", "q2">>
Qnames == {QOrder[i] : i \in 1..Len(QOrder)}

EvStart == "ordinance:plugin.start"
EvStop == "ordinance:plugin.stop"
EvUser == "e"

\* What extract_scheduler_funcs finds on the plugin class of each bundle: one
\* entry per (scheduled function, trigger).  dur tells whether the callback
\* ends within one join timeout ("fast", e.g. sleeps 2s) or not ("slow").
Q1Defs ==
    << [sched |-> "on_start", kind |-> "event",    event |-> EvStart, dur |-> "fast"],
       [sched |-> "on_stop",  kind |-> "event",    event |-> EvStop,  dur |-> "fast"],
       [sched |-> "job",      kind |-> "periodic", event |-> "-",     dur |-> "slow"],
       [sched |-> "on_e",     kind |-> "event",    event |-> EvUser,  dur |-> "fast"] >>

Q2Defs ==
    << [sched |-> "on_stop",  kind |-> "event",    event |-> EvStop,  dur |-> "slow"],
       [sched |-> "on_e",     kind |-> "event",    event |-> EvUser,  dur |-> "fast"] >>

\* q2's class without a callback on plugin.stop
Q2DefsNoStop ==
    << [sched |-> "on_e",     kind |-> "event",    event |-> EvUser,  dur |-> "fast"] >>

\* q2's class with a periodic trigger beside the callback on plugin.stop
Q2DefsJob ==
    << [sched |-> "on_stop",  kind |-> "event",    event |-> EvStop,  dur |-> "slow"],
       [sched |-> "sweep",    kind |-> "periodic", event |-> "-",     dur |-> "fast"] >>

\* the steps of plugin_load that can raise
FailBeforeModule == {"yaml", "resolve"}
FailAfterModule == {"setup", "typecheck", "metadata", "construct"}
FailPoints == FailBeforeModule \cup {"exec"} \cup FailAfterModule

\* ------------------------------------------------------------------- state
VARIABLES
    bundles,        \* the plugin sources on disk: qname -> the triggers its class declares
    plugins,        \* Core.__plugins   : qname -> instance id or None
    schedules,      \* Core.__schedules : qname -> id of the instance whose class was scanned, or None
    commands,       \* Core.__commands  : likewise
    sysModules,     \* sys.modules[qname] : module id or None (absent)
    activeThreads,  \* Core.active_threads (worker indices)
    workers,        \* every threading.Thread started by ScheduledFunction.__call__
    call,           \* per caller thread: the call in progress and its locals
    loopClosed,     \* per thread: asyncio's current event loop is set and closed
    sched,          \* the scheduler thread: position and locals
    shouldRun,      \* Core._scheduler_should_run
    coreRunning,    \* Core.__core_running
    stopLog,        \* teardown steps Core.stop() has completed, in order
    unloaded,       \* qnames whose last plugin_unload returned normally, no load begun since
    nextId,         \* the id the next evaluated module and its plugin instance get
    ncalls,         \* per caller thread: calls made after construction
    ticks,          \* full ticks begun
    clk,            \* the scheduler's clock: times read by _scheduler_loop, triggers watched
    net,            \* the address stores (blacklist, whitelist) and their files
    fw,             \* the kernel's packet-filter state seen by setup_iptables
    trg,            \* one ScheduledFunction: its trigger dict and the last registration
    cal,            \* a calendar trigger, the wall clock and the predicate's last answer
    cmd,            \* run.py's command loop: position, the line in hand, the last token
    wr,             \* ordinance.writer: known types, enabled sinks, their locks, producers
    disc,           \* fetch_all_qnames: the listing of the plugin root and the scan over it
    dm,             \* deep_merge: the default and the user configuration, the merged one
    ipx             \* ip_to_int: the string given and what the call made of it

\* the parts of the program a specification leaves at rest
resting == << trg, cal, cmd, wr, disc, dm, ipx >>
others == << clk, net, fw, resting >>
Off == [pc |-> "off"]
RestOff == trg = Off /\ cal = Off /\ cmd = Off /\ wr = Off /\ disc = Off /\ dm = Off /\ ipx = Off
ClkOff == [pc |-> "off"]
NetOff == [pc |-> "off"]
FwOff == [pc |-> "off"]

vars == << others, bundles, plugins, schedules, commands, sysModules, activeThreads, workers, call,
           loopClosed, sched, shouldRun, coreRunning, stopLog, unloaded, nextId,
           ncalls, ticks >>

coreVars == << bundles, plugins, schedules, commands, sysModules, activeThreads, workers, call,
               loopClosed, sched, shouldRun, coreRunning, stopLog, unloaded, nextId,
               ncalls, ticks >>

\* extract_scheduler_funcs: the triggers declared by the class of plugin q
SchedDefs(q) == bundles[q]

Callers == {"main", "t2"}
Threads == Callers \cup {"sched"}

IdleCall == [pc |-> "idle", op |-> "-", q |-> "-", outer |-> "-", todo |-> << >>,
             n |-> 0, fail |-> "-", sf |-> None, inst |-> None, ev |-> "-",
             targets |-> << >>, active |-> << >>, j |-> 0, res |-> "-"]

IdleSched == [pc |-> "notstarted", cursor |-> << >>, sf |-> None, inst |-> None,
              snap |-> {}, joining |-> << >>, j |-> 0]

CoreInit ==
    /\ plugins = [q \in Qnames |-> None]
    /\ schedules = [q \in Qnames |-> None]
    /\ commands = [q \in Qnames |-> None]
    /\ sysModules = [q \in Qnames |-> None]
    /\ activeThreads = {}
    /\ workers = << >>
    /\ call = [c \in Callers |-> IF c = "main"
                                 THEN [IdleCall EXCEPT !.pc = "ctor", !.op = "ctor",
                                                       !.todo = QOrder]
                                 ELSE IdleCall]
    /\ loopClosed = [t \in Threads |-> FALSE]
    /\ sched = IdleSched
    /\ shouldRun = FALSE
    /\ coreRunning = FALSE
    /\ stopLog = << >>
    /\ unloaded = {}
    /\ nextId = 1
    /\ ncalls = [c \in Callers |-> 0]
    /\ ticks = 0

\* the state after Core.__init__ begins; the bundle on disk is an input
Init ==
    /\ bundles \in {[q \in Qnames |-> IF q = "q1" THEN Q1Defs ELSE d] : d \in {Q2Defs, Q2DefsNoStop, Q2DefsJob}}
    /\ CoreInit
    /\ clk = ClkOff /\ net = NetOff /\ fw = FwOff /\ RestOff

\* ----------------------------------------------------------------- helpers
Range(s) == {s[i] : i \in 1..Len(s)}

Alive(i) == workers[i].st = "running"

\* ScheduledFunction.__call__: one started thread per matching trigger
NewWorkers(defs, q, inst, cause) ==
    [i \in 1..Len(defs) |->
        [q |-> q, sched |-> defs[i].sched, kind |-> defs[i].kind, event |-> defs[i].event,
         inst |-> inst, cause |-> cause, dur |-> defs[i].dur, st |-> "running",
         waited |-> FALSE]]

\* indices the next Len(new) started threads get
NewIds(new) == [i \in 1..Len(new) |-> Len(workers) + i]

\* everything but the caller's own position
notCall == << others, bundles, plugins, schedules, commands, sysModules, activeThreads, workers,
              loopClosed, sched, shouldRun, coreRunning, stopLog, unloaded, nextId,
              ncalls, ticks >>

Raised(r) == r.res \notin {"-", "ok", "failed"}

\* a caller may begin a call once the constructor has returned
CanCall(c) ==
    /\ call[c].pc = "idle"
    /\ sched.pc # "notstarted"
    /\ ncalls[c] < MaxCalls

\* ------------------------------------------------- Core._fire_event_thread
\* where a dispatch hands over once its plugin list is exhausted
DispatchDone(r) == IF r.op = "unload" THEN "u_join" ELSE "fe_extend"

AfterTarget(r) == IF Len(r.targets) > 1 THEN "fe_sched" ELSE DispatchDone(r)

\* (mutant) every EventTrigger matches, whatever its event name
EventMatch_AnyEvent(d, ev) == d.kind = "event"

\* line 408: isinstance(trig, EventTrigger) and trig.event == event
EventMatch(d, ev) == d.kind = "event" /\ d.event = ev

\* scheduled_funcs = self.__schedules[plugin_name]; None -> continue
fire_read_schedules(c) ==
    /\ call[c].pc = "fe_sched"
    /\ LET r == call[c]
           q == Head(r.targets)
       IN  call' = [call EXCEPT ![c] =
                IF schedules[q] = None
                THEN [r EXCEPT !.targets = Tail(r.targets), !.pc = AfterTarget(r)]
                ELSE [r EXCEPT !.sf = schedules[q], !.pc = "fe_inst"]]
    /\ UNCHANGED notCall

\* plugin_instance = self.__plugins[plugin_name]; start a thread per matching
\* EventTrigger with that instance
fire_spawn(c) ==
    /\ call[c].pc = "fe_inst"
    /\ LET r == call[c]
           q == Head(r.targets)
           Match(d) == EventMatch(d, r.ev)
           new == NewWorkers(SelectSeq(SchedDefs(q), Match), q, plugins[q],
                             [op |-> r.op, q |-> r.q])
       IN  /\ workers' = workers \o new
           /\ call' = [call EXCEPT ![c] =
                    [r EXCEPT !.active = r.active \o NewIds(new),
                              !.targets = Tail(r.targets), !.sf = None,
                              !.pc = AfterTarget(r)]]
    /\ UNCHANGED << others, bundles, plugins, schedules, commands, sysModules, activeThreads, loopClosed,
                    sched, shouldRun, coreRunning, stopLog, unloaded, nextId, ncalls, ticks >>

\* fire_event: self.active_threads.extend(active)
fire_extend(c) ==
    /\ call[c].pc = "fe_extend"
    /\ activeThreads' = activeThreads \cup Range(call[c].active)
    /\ call' = [call EXCEPT ![c] =
             [call[c] EXCEPT !.pc = IF call[c].op = "load" THEN "l_ret" ELSE "f_ret",
                             !.res = "ok"]]
    /\ UNCHANGED << others, bundles, plugins, schedules, commands, sysModules, workers, loopClosed, sched,
                    shouldRun, coreRunning, stopLog, unloaded, nextId, ncalls, ticks >>

\* ------------------------------------------------------- Core.plugin_load
\* (mutant) plugin.start dispatched with the default plugin list: every plugin
StartTargets_All(q) == QOrder

\* the plugin list plugin_load hands to fire_event
StartTargets(q) == << q >>

\* lines 233-237: the two precondition checks, then the try block is entered
LoadEntry(q, outer, todo, f) ==
    LET base == [IdleCall EXCEPT !.op = "load", !.q = q, !.outer = outer, !.todo = todo]
    IN  IF q \notin Qnames
        THEN [base EXCEPT !.pc = "l_ret", !.res = "PluginNotFound"]
        ELSE IF plugins[q] # None
        THEN [base EXCEPT !.pc = "l_ret", !.res = "PluginAlreadyLoaded"]
        ELSE [base EXCEPT !.pc = "l_module", !.fail = f]

plugin_load(c) ==
    /\ CanCall(c)
    /\ \E q \in Qnames \cup {"qx"}, f \in FailPoints \cup {"none"} :
          /\ call' = [call EXCEPT ![c] = LoadEntry(q, "-", << >>, f)]
          /\ unloaded' = unloaded \ {q}
    /\ ncalls' = [ncalls EXCEPT ![c] = ncalls[c] + 1]
    /\ UNCHANGED << others, bundles, plugins, schedules, commands, sysModules, activeThreads, workers,
                    loopClosed, sched, shouldRun, coreRunning, stopLog, nextId, ticks >>

\* load_plugin_yaml, then load_module_from_file up to sys.modules[qname] = module
load_module(c) ==
    /\ call[c].pc = "l_module"
    /\ LET r == call[c] IN
       IF r.fail \in FailBeforeModule
       THEN /\ call' = [call EXCEPT ![c] = [r EXCEPT !.pc = "l_exc_p", !.fail = "-"]]
            /\ UNCHANGED << others, bundles, sysModules, nextId >>
       ELSE /\ sysModules' = [sysModules EXCEPT ![r.q] = nextId]
            /\ call' = [call EXCEPT ![c] = [r EXCEPT !.pc = "l_exec", !.n = nextId]]
            /\ nextId' = nextId + 1
    /\ UNCHANGED << others, bundles, plugins, schedules, commands, activeThreads, workers, loopClosed,
                    sched, shouldRun, coreRunning, stopLog, unloaded, ncalls, ticks >>

\* what a failure of exec_module leaves in sys.modules (del sys.modules[qname])
ExecFailModules(q) == [sysModules EXCEPT ![q] = None]

\* what a failure of a later step leaves in sys.modules: plugin_load's except
\* block resets the three registries only
LateFailModules(q) == sysModules

\* spec.loader.exec_module, define_plugin_from_module, write_metadata, the two
\* extractions and plugin_class(conf): none of them reads shared state
load_exec(c) ==
    /\ call[c].pc = "l_exec"
    /\ LET r == call[c] IN
       IF r.fail = "exec"
       THEN /\ sysModules' = ExecFailModules(r.q)
            /\ call' = [call EXCEPT ![c] = [r EXCEPT !.pc = "l_exc_p", !.fail = "-"]]
       ELSE IF r.fail \in FailAfterModule
       THEN /\ sysModules' = LateFailModules(r.q)
            /\ call' = [call EXCEPT ![c] = [r EXCEPT !.pc = "l_exc_p", !.fail = "-"]]
       ELSE /\ UNCHANGED sysModules
            /\ call' = [call EXCEPT ![c] = [r EXCEPT !.pc = "l_inst", !.inst = r.n]]
    /\ UNCHANGED << others, bundles, plugins, schedules, commands, activeThreads, workers, loopClosed,
                    sched, shouldRun, coreRunning, stopLog, unloaded, nextId, ncalls, ticks >>

\* the except block, lines 260-262: three separate stores
load_except(c) ==
    /\ call[c].pc \in {"l_exc_p", "l_exc_s", "l_exc_c"}
    /\ LET r == call[c] IN
       /\ plugins' = IF r.pc = "l_exc_p" THEN [plugins EXCEPT ![r.q] = None] ELSE plugins
       /\ schedules' = IF r.pc = "l_exc_s" THEN [schedules EXCEPT ![r.q] = None] ELSE schedules
       /\ commands' = IF r.pc = "l_exc_c" THEN [commands EXCEPT ![r.q] = None] ELSE commands
       /\ call' = [call EXCEPT ![c] =
                IF r.pc = "l_exc_p" THEN [r EXCEPT !.pc = "l_exc_s"]
                ELSE IF r.pc = "l_exc_s" THEN [r EXCEPT !.pc = "l_exc_c"]
                ELSE [r EXCEPT !.pc = "l_ret", !.res = "failed"]]
    /\ UNCHANGED << others, bundles, sysModules, activeThreads, workers, loopClosed, sched, shouldRun,
                    coreRunning, stopLog, unloaded, nextId, ncalls, ticks >>

\* the else block, lines 270-273: three separate stores, then fire_event
load_install(c) ==
    /\ call[c].pc \in {"l_inst", "l_scheds", "l_cmds"}
    /\ LET r == call[c] IN
       /\ plugins' = IF r.pc = "l_inst" THEN [plugins EXCEPT ![r.q] = r.inst] ELSE plugins
       /\ schedules' = IF r.pc = "l_scheds" THEN [schedules EXCEPT ![r.q] = r.inst] ELSE schedules
       /\ commands' = IF r.pc = "l_cmds" THEN [commands EXCEPT ![r.q] = r.inst] ELSE commands
       /\ call' = [call EXCEPT ![c] =
                IF r.pc = "l_inst" THEN [r EXCEPT !.pc = "l_scheds"]
                ELSE IF r.pc = "l_scheds" THEN [r EXCEPT !.pc = "l_cmds"]
                ELSE [r EXCEPT !.pc = "fe_sched", !.ev = EvStart, !.inst = None,
                               !.targets = StartTargets(r.q)]]
    /\ UNCHANGED << others, bundles, sysModules, activeThreads, workers, loopClosed, sched, shouldRun,
                    coreRunning, stopLog, unloaded, nextId, ncalls, ticks >>

\* ----------------------------------------------------- Core.plugin_unload
\* the plugin list plugin_unload hands to _fire_event_thread
StopTargets(q) == << q >>

\* lines 277-281: the two precondition checks, then the try block is entered
UnloadEntry(q, outer, todo) ==
    LET base == [IdleCall EXCEPT !.op = "unload", !.q = q, !.outer = outer, !.todo = todo]
    IN  IF q \notin Qnames
        THEN [base EXCEPT !.pc = "u_ret", !.res = "PluginNotFound"]
        ELSE IF plugins[q] = None
        THEN [base EXCEPT !.pc = "u_ret", !.res = "PluginAlreadyLoaded"]
        ELSE [base EXCEPT !.pc = "fe_sched", !.ev = EvStop, !.targets = StopTargets(q)]

plugin_unload(c) ==
    /\ CanCall(c)
    /\ \E q \in Qnames \cup {"qx"} :
          call' = [call EXCEPT ![c] = UnloadEntry(q, "-", << >>)]
    /\ ncalls' = [ncalls EXCEPT ![c] = ncalls[c] + 1]
    /\ UNCHANGED << others, bundles, plugins, schedules, commands, sysModules, activeThreads, workers,
                    loopClosed, sched, shouldRun, coreRunning, stopLog, unloaded, nextId,
                    ticks >>

\* (mutant) the three stores sit in the else block, not in finally: an
\* exception leaves the call without them
UnloadRaise_SkipsCleanup(r, exn) == [r EXCEPT !.res = exn, !.pc = "u_ret"]

\* an exception inside the try block: the except block logs and re-raises, the
\* finally block (lines 310-319) runs before the exception leaves the call
UnloadRaise(r, exn) == [r EXCEPT !.res = exn, !.pc = "u_fin_p"]

\* async_join_threads, lines 96-100 and the entry of run_until_complete:
\* asyncio.get_event_loop() hands back the loop this thread closed in its last
\* call, and run_until_complete on a closed loop raises RuntimeError
JoinRaises(t) == loopClosed[t]

\* lines 288-290: if len(active): active = async_join_threads(active, 5.0)
unload_join_enter(c) ==
    /\ call[c].pc = "u_join"
    /\ LET r == call[c] IN
       call' = [call EXCEPT ![c] =
           IF r.active = << >> THEN [r EXCEPT !.pc = "u_del"]
           ELSE IF JoinRaises(c) THEN UnloadRaise(r, "RuntimeError")
           ELSE [r EXCEPT !.pc = "u_joining", !.j = 1]]
    /\ UNCHANGED notCall

\* join_one: th.join(timeout).  It returns when the thread has ended, or, for
\* a callback that outlasts the timeout, when the timeout has passed.
JoinReturns(i) == workers[i].st = "done" \/ workers[i].dur = "slow"

Joined(i) == [workers EXCEPT ![i].waited = (workers[i].st = "running")]

unload_join_one(c) ==
    /\ call[c].pc = "u_joining"
    /\ LET r == call[c]
           i == r.active[r.j]
       IN  /\ JoinReturns(i)
           /\ workers' = Joined(i)
           /\ call' = [call EXCEPT ![c] =
                    IF r.j < Len(r.active) THEN [r EXCEPT !.j = r.j + 1]
                    ELSE [r EXCEPT !.j = 0, !.pc = "u_joined"]]
    /\ UNCHANGED << others, bundles, plugins, schedules, commands, sysModules, activeThreads, loopClosed,
                    sched, shouldRun, coreRunning, stopLog, unloaded, nextId, ncalls, ticks >>

\* lines 108-109: loop.close(); return [th for th in threads if th.is_alive()]
unload_joined(c) ==
    /\ call[c].pc = "u_joined"
    /\ loopClosed' = [loopClosed EXCEPT ![c] = TRUE]
    /\ call' = [call EXCEPT ![c] =
             [call[c] EXCEPT !.active = SelectSeq(call[c].active, Alive), !.pc = "u_del"]]
    /\ UNCHANGED << others, bundles, plugins, schedules, commands, sysModules, activeThreads, workers,
                    sched, shouldRun, coreRunning, stopLog, unloaded, nextId, ncalls, ticks >>

\* line 298: del sys.modules[qname] (KeyError when the key is absent)
unload_del(c) ==
    /\ call[c].pc = "u_del"
    /\ LET r == call[c] IN
       IF sysModules[r.q] = None
       THEN /\ call' = [call EXCEPT ![c] = UnloadRaise(r, "KeyError")]
            /\ UNCHANGED sysModules
       ELSE /\ sysModules' = [sysModules EXCEPT ![r.q] = None]
            /\ call' = [call EXCEPT ![c] = [r EXCEPT !.res = "ok", !.pc = "u_fin_p"]]
    /\ UNCHANGED << others, bundles, plugins, schedules, commands, activeThreads, workers, loopClosed,
                    sched, shouldRun, coreRunning, stopLog, unloaded, nextId, ncalls, ticks >>

\* the finally block, lines 317-319: three separate stores
unload_finally(c) ==
    /\ call[c].pc \in {"u_fin_p", "u_fin_s", "u_fin_c"}
    /\ LET r == call[c] IN
       /\ plugins' = IF r.pc = "u_fin_p" THEN [plugins EXCEPT ![r.q] = None] ELSE plugins
       /\ schedules' = IF r.pc = "u_fin_s" THEN [schedules EXCEPT ![r.q] = None] ELSE schedules
       /\ commands' = IF r.pc = "u_fin_c" THEN [commands EXCEPT ![r.q] = None] ELSE commands
       /\ call' = [call EXCEPT ![c].pc =
                IF r.pc = "u_fin_p" THEN "u_fin_s"
                ELSE IF r.pc = "u_fin_s" THEN "u_fin_c" ELSE "u_ret"]
    /\ UNCHANGED << others, bundles, sysModules, activeThreads, workers, loopClosed, sched, shouldRun,
                    coreRunning, stopLog, unloaded, nextId, ncalls, ticks >>

\* --------------------------------------------------------- Core.fire_event
fire_event(c) ==
    /\ CanCall(c)
    /\ \E tg \in {QOrder} \cup {<< q >> : q \in Qnames} :
          call' = [call EXCEPT ![c] =
              [IdleCall EXCEPT !.op = "fire", !.ev = EvUser,
                               !.targets = tg, !.pc = "fe_sched"]]
    /\ ncalls' = [ncalls EXCEPT ![c] = ncalls[c] + 1]
    /\ UNCHANGED << others, bundles, plugins, schedules, commands, sysModules, activeThreads, workers,
                    loopClosed, sched, shouldRun, coreRunning, stopLog, unloaded, nextId,
                    ticks >>

\* -------------------------------------------------------------- Core.stop
\* lines 196-204: the running check, then self.__api_server.stop()
stop(c) ==
    /\ CanCall(c)
    /\ c = "main"
    /\ IF ~coreRunning
       THEN /\ call' = [call EXCEPT ![c] =
                    [IdleCall EXCEPT !.op = "stop", !.pc = "st_ret", !.res = "AlreadyStopped"]]
            /\ UNCHANGED stopLog
       ELSE /\ call' = [call EXCEPT ![c] =
                    [IdleCall EXCEPT !.op = "stop", !.pc = "st_unload", !.todo = QOrder]]
            /\ stopLog' = Append(stopLog, << "api", "-" >>)
    /\ ncalls' = [ncalls EXCEPT ![c] = ncalls[c] + 1]
    /\ UNCHANGED << others, bundles, plugins, schedules, commands, sysModules, activeThreads, workers,
                    loopClosed, sched, shouldRun, coreRunning, unloaded, nextId, ticks >>

\* (variant) the run flag is cleared before the plugins are unloaded
stop_unload_FlagFirst(c) ==
    /\ call[c].pc = "st_unload"
    /\ call' = [call EXCEPT ![c].pc = "st_flag"]
    /\ UNCHANGED notCall

\* lines 207-208: for qname in self.__plugins.keys(): self.plugin_unload(qname)
stop_unload(c) ==
    /\ call[c].pc = "st_unload"
    /\ LET r == call[c] IN
       IF r.todo = << >>
       THEN call' = [call EXCEPT ![c].pc = "st_flag"]
       ELSE call' = [call EXCEPT ![c] = UnloadEntry(Head(r.todo), "stop", Tail(r.todo))]
    /\ UNCHANGED notCall

\* lines 209-221, one statement per step; the join waits for the scheduler
\* thread to end
stop_teardown(c) ==
    /\ call[c].pc \in {"st_flag", "st_join", "st_flush_bl", "st_flush_wl", "st_sinks", "st_done"}
    /\ LET r == call[c] IN
       /\ r.pc = "st_join" => sched.pc \in {"s_done", "s_crashed"}
       /\ shouldRun' = IF r.pc = "st_flag" THEN FALSE ELSE shouldRun
       /\ coreRunning' = IF r.pc = "st_done" THEN FALSE ELSE coreRunning
       /\ stopLog' = IF r.pc = "st_flag" THEN Append(stopLog, << "flag", "-" >>)
                     ELSE IF r.pc = "st_join" THEN Append(stopLog, << "join", "-" >>)
                     ELSE IF r.pc = "st_flush_bl" THEN Append(stopLog, << "flush", "blacklist" >>)
                     ELSE IF r.pc = "st_flush_wl" THEN Append(stopLog, << "flush", "whitelist" >>)
                     ELSE IF r.pc = "st_sinks" THEN Append(stopLog, << "sinks", "-" >>)
                     ELSE stopLog
       /\ call' = [call EXCEPT ![c] =
                IF r.pc = "st_flag" THEN [r EXCEPT !.pc = "st_join"]
                ELSE IF r.pc = "st_join" THEN [r EXCEPT !.pc = "st_flush_bl"]
                ELSE IF r.pc = "st_flush_bl" THEN [r EXCEPT !.pc = "st_flush_wl"]
                ELSE IF r.pc = "st_flush_wl" THEN [r EXCEPT !.pc = "st_sinks"]
                ELSE IF r.pc = "st_sinks" THEN [r EXCEPT !.pc = "st_done"]
                ELSE [r EXCEPT !.pc = "st_ret", !.res = "ok"]]
    /\ UNCHANGED << others, bundles, plugins, schedules, commands, sysModules, activeThreads, workers,
                    loopClosed, sched, unloaded, nextId, ncalls, ticks >>

\* ---------------------------------------------------------- Core.__init__
\* lines 160-162: for qname in self.__plugins.keys(): self.plugin_load(qname)
ctor_load(c) ==
    /\ call[c].pc = "ctor"
    /\ call[c].todo # << >>
    /\ \E f \in FailPoints \cup {"none"} :
          call' = [call EXCEPT ![c] =
              LoadEntry(Head(call[c].todo), "ctor", Tail(call[c].todo), f)]
    /\ UNCHANGED notCall

\* lines 169-188: the scheduler thread is started, the core is marked running
ctor_start(c) ==
    /\ call[c].pc = "ctor"
    /\ call[c].todo = << >>
    /\ shouldRun' = TRUE
    /\ sched' = [sched EXCEPT !.pc = "s_loop"]
    /\ coreRunning' = TRUE
    /\ call' = [call EXCEPT ![c] = IdleCall]
    /\ UNCHANGED << others, bundles, plugins, schedules, commands, sysModules, activeThreads, workers,
                    loopClosed, stopLog, unloaded, nextId, ncalls, ticks >>

\* ------------------------------------------------ a call hands back control
\* The caller of a returned call goes on: the constructor and stop() with their
\* loops (an exception out of plugin_unload leaves stop() at once), any other
\* caller is free for its next call.
Return(c) ==
    /\ call[c].pc \in {"l_ret", "u_ret", "f_ret", "st_ret"}
    /\ LET r == call[c] IN
       /\ call' = [call EXCEPT ![c] =
                IF r.outer = "ctor"
                THEN [IdleCall EXCEPT !.pc = "ctor", !.op = "ctor", !.todo = r.todo]
                ELSE IF r.outer = "stop"
                THEN IF Raised(r)
                     THEN [IdleCall EXCEPT !.op = "stop", !.pc = "st_ret", !.res = r.res]
                     ELSE [IdleCall EXCEPT !.op = "stop", !.pc = "st_unload", !.todo = r.todo]
                ELSE IdleCall]
       /\ unloaded' = IF r.op = "unload" /\ r.res = "ok"
                      THEN unloaded \cup {r.q} ELSE unloaded
       /\ stopLog' = IF r.outer = "stop" /\ ~Raised(r)
                     THEN Append(stopLog, << "unload", r.q >>) ELSE stopLog
    /\ UNCHANGED << others, bundles, plugins, schedules, commands, sysModules, activeThreads, workers,
                    loopClosed, sched, shouldRun, coreRunning, nextId, ncalls, ticks >>

\* ------------------------------------------------------------ worker threads
\* _exc_wrap returns: the callback has ended (or raised, which is logged)
worker_finish ==
    \E i \in 1..Len(workers) :
        /\ workers[i].st = "running"
        /\ workers' = [workers EXCEPT ![i].st = "done"]
        /\ UNCHANGED << others, bundles, plugins, schedules, commands, sysModules, activeThreads, call,
                        loopClosed, sched, shouldRun, coreRunning, stopLog, unloaded,
                        nextId, ncalls, ticks >>

\* --------------------------------------------------- Core._scheduler_loop
notSched == << others, bundles, plugins, schedules, commands, sysModules, activeThreads, workers, call,
               loopClosed, shouldRun, coreRunning, stopLog, unloaded, nextId, ncalls, ticks >>

RECURSIVE SeqOf(_)
\* a list holding the members of S (ascending thread index)
SeqOf(S) ==
    IF S = {} THEN << >>
    ELSE LET m == CHOOSE x \in S : \A y \in S : x <= y
         IN  << m >> \o SeqOf(S \ {m})

\* line 333: while self._scheduler_should_run; line 337: a full tick is due
\* (the subtick sleeps in between change nothing)
sched_loop ==
    /\ sched.pc = "s_loop"
    /\ \/ /\ ~shouldRun
          /\ sched' = [sched EXCEPT !.pc = "s_teardown"]
          /\ UNCHANGED ticks
       \/ /\ shouldRun
          /\ ticks < MaxTicks
          /\ ticks' = ticks + 1
          /\ sched' = [sched EXCEPT !.pc = "s_prune"]
    /\ UNCHANGED << others, bundles, plugins, schedules, commands, sysModules, activeThreads, workers, call,
                    loopClosed, shouldRun, coreRunning, stopLog, unloaded, nextId, ncalls >>

\* line 347, right-hand side: [th for th in self.active_threads if th.is_alive()]
sched_prune_read ==
    /\ sched.pc = "s_prune"
    /\ sched' = [sched EXCEPT !.snap = {i \in activeThreads : Alive(i)}, !.pc = "s_prune_w"]
    /\ UNCHANGED notSched

\* line 347, the store to self.active_threads; sched_gen starts over the keys
sched_prune_write ==
    /\ sched.pc = "s_prune_w"
    /\ activeThreads' = sched.snap
    /\ sched' = [sched EXCEPT !.snap = {}, !.cursor = QOrder, !.pc = "s_sched"]
    /\ UNCHANGED << others, bundles, plugins, schedules, commands, sysModules, workers, call, loopClosed,
                    shouldRun, coreRunning, stopLog, unloaded, nextId, ncalls, ticks >>

AfterPlugin(s) == IF Len(s.cursor) > 1 THEN "s_sched" ELSE "s_loop"

\* sched_gen, lines 363-365: scheduled_funcs of the next plugin; None -> continue
sched_read_schedules ==
    /\ sched.pc = "s_sched"
    /\ LET q == Head(sched.cursor) IN
       sched' = IF schedules[q] = None
                THEN [sched EXCEPT !.cursor = Tail(sched.cursor), !.pc = AfterPlugin(sched)]
                ELSE [sched EXCEPT !.sf = schedules[q], !.pc = "s_inst"]
    /\ UNCHANGED notSched

\* sched_gen, line 366: plugin_instance = self.__plugins[plugin_name]
sched_read_instance ==
    /\ sched.pc = "s_inst"
    /\ sched' = [sched EXCEPT !.inst = plugins[Head(sched.cursor)], !.pc = "s_fire"]
    /\ UNCHANGED notSched

\* the calendar, delay and periodic triggers of a plugin class
TickDefs(q) == LET OnTick(d) == d.kind # "event" IN SelectSeq(SchedDefs(q), OnTick)

\* the entries of defs at the positions in mask, in order
Pick(defs, mask) ==
    LET ix == SeqOf(mask) IN [k \in 1..Len(ix) |-> defs[ix[k]]]

\* lines 371-377 for one plugin: every trigger whose predicate holds at this
\* tick (the clock decides which) is logged, plugin_instance.qname included,
\* and fired; with plugin_instance None the log line raises AttributeError,
\* which nothing in the loop catches
sched_fire ==
    /\ sched.pc = "s_fire"
    /\ LET q == Head(sched.cursor)
           defs == TickDefs(q)
       IN  \E mask \in SUBSET (1..Len(defs)) :
            LET new == NewWorkers(Pick(defs, mask), q, sched.inst,
                                  [op |-> "tick", q |-> "-"])
            IN  IF mask # {} /\ sched.inst = None
                THEN /\ sched' = [IdleSched EXCEPT !.pc = "s_crashed"]
                     /\ UNCHANGED << others, bundles, workers, activeThreads >>
                ELSE /\ workers' = workers \o new
                     /\ activeThreads' = activeThreads \cup Range(NewIds(new))
                     /\ sched' = [sched EXCEPT !.sf = None, !.inst = None,
                                               !.cursor = Tail(sched.cursor),
                                               !.pc = AfterPlugin(sched)]
    /\ UNCHANGED << others, bundles, plugins, schedules, commands, sysModules, call, loopClosed, shouldRun,
                    coreRunning, stopLog, unloaded, nextId, ncalls, ticks >>

\* lines 385-388: teardown; async_join_threads(self.active_threads, 5.0)
sched_teardown ==
    /\ sched.pc = "s_teardown"
    /\ sched' = IF activeThreads = {} THEN [sched EXCEPT !.pc = "s_done"]
                ELSE IF JoinRaises("sched") THEN [IdleSched EXCEPT !.pc = "s_crashed"]
                ELSE [sched EXCEPT !.joining = SeqOf(activeThreads), !.j = 1,
                                   !.pc = "s_joining"]
    /\ UNCHANGED notSched

sched_join_one ==
    /\ sched.pc = "s_joining"
    /\ LET i == sched.joining[sched.j] IN
       /\ JoinReturns(i)
       /\ workers' = Joined(i)
       /\ sched' = IF sched.j < Len(sched.joining) THEN [sched EXCEPT !.j = sched.j + 1]
                   ELSE [sched EXCEPT !.j = 0, !.pc = "s_joined"]
    /\ UNCHANGED << others, bundles, plugins, schedules, commands, sysModules, activeThreads, call,
                    loopClosed, shouldRun, coreRunning, stopLog, unloaded, nextId, ncalls,
                    ticks >>

\* line 388, the store: self.active_threads = the threads still alive
sched_joined ==
    /\ sched.pc = "s_joined"
    /\ activeThreads' = {i \in Range(sched.joining) : Alive(i)}
    /\ loopClosed' = [loopClosed EXCEPT !["sched"] = TRUE]
    /\ sched' = [sched EXCEPT !.joining = << >>, !.pc = "s_done"]
    /\ UNCHANGED << others, bundles, plugins, schedules, commands, sysModules, workers, call, shouldRun,
                    coreRunning, stopLog, unloaded, nextId, ncalls, ticks >>

\* ------------------------------------------------------------ specifications
CallerStep(c) ==
    \/ ctor_load(c) \/ ctor_start(c)
    \/ plugin_load(c) \/ load_module(c) \/ load_exec(c) \/ load_except(c) \/ load_install(c)
    \/ plugin_unload(c) \/ unload_join_enter(c) \/ unload_join_one(c) \/ unload_joined(c)
    \/ unload_del(c) \/ unload_finally(c)
    \/ fire_event(c) \/ fire_read_schedules(c) \/ fire_spawn(c) \/ fire_extend(c)
    \/ stop(c) \/ stop_unload(c) \/ stop_teardown(c)
    \/ Return(c)

SchedStep ==
    \/ sched_loop \/ sched_prune_read \/ sched_prune_write
    \/ sched_read_schedules \/ sched_read_instance \/ sched_fire
    \/ sched_teardown \/ sched_join_one \/ sched_joined

\* the program as the repository drives it: one thread makes the lifecycle
\* calls, beside the scheduler thread and the workers
Next == CallerStep("main") \/ SchedStep \/ worker_finish

Spec == Init /\ [][Next]_vars

\* several threads make lifecycle calls at once (plugin_load and plugin_unload
\* are public methods of Core); the scheduler thread sleeps between ticks
NextMT == (\E c \in Callers : CallerStep(c)) \/ worker_finish

SpecMT == Init /\ [][NextMT]_vars

\* ------------------------------------------ the tick loop against the clock
\* Times are whole seconds since scheduler_start.  The configuration is the
\* default one: scheduler_tick 30, scheduler_subtick 5.
TickInterval == 30
SubtickInterval == 5
\* line 330: granularity = tick_interval/2
Granularity == TickInterval \div 2

\* a sleep may overshoot by up to MaxJitter, the work of a tick takes up to
\* MaxWork, or LongWork when the machine is loaded (longer than a subtick), and
\* the run is followed up to MaxTime
MaxJitter == 1
MaxWork == 1
LongWork == 7
MaxTime == 100
WorkTimes == (0..MaxWork) \cup {LongWork}

\* add_delay_trigger stores the timedelta it was given ("timedelta");
\* DelayTrigger(id, daemonic, seconds) built directly holds a number ("seconds")
DelayForms == {"timedelta", "seconds"}
Delays == {0, 10, 15, 20, 45, 50}
\* add_periodic_trigger stores delta.total_seconds()
Periods == {20, 45}

Abs(x) == IF x < 0 THEN 0 - x ELSE x

\* delay_trigger_should_run: timedelta(seconds=delay_sec) raises TypeError when
\* delay_sec is itself a timedelta
delay_trigger_should_run(form, delay_sec, total_elapsed, granularity) ==
    IF form = "timedelta" THEN "TypeError"
    ELSE IF Abs(total_elapsed - delay_sec) <= granularity THEN "run" ELSE "no"

\* periodic_trigger_should_run
periodic_trigger_should_run(period_sec, total_elapsed, granularity) ==
    Abs(total_elapsed % period_sec) <= granularity

\* lines 329-332: scheduler_start and last_tick_start are read at start; the
\* plugin declares one delay trigger and one periodic trigger
ClockInit ==
    clk \in {[pc |-> "loop", now |-> 0, last |-> 0, sub |-> 0, form |-> f, delay |-> d,
              period |-> p, nDelay |-> 0, lastPeriodic |-> 0, gap |-> 0, nticks |-> 0,
              first |-> "-"] :
             f \in DelayForms, d \in Delays, p \in Periods}

InitClock ==
    /\ bundles = [q \in Qnames |-> << >>]
    /\ CoreInit
    /\ ClockInit /\ net = NetOff /\ fw = FwOff /\ RestOff

notClk == << bundles, plugins, schedules, commands, sysModules, activeThreads, workers,
             call, loopClosed, sched, shouldRun, coreRunning, stopLog, unloaded, nextId,
             ncalls, ticks, net, fw, resting >>

\* lines 335-337 and 343: subtick_start is read; a full tick begins when
\* tick_interval has passed since last_tick_start, which is then read anew
clk_subtick ==
    /\ clk.pc = "loop"
    /\ clk' = IF clk.now - clk.last < TickInterval
              THEN [clk EXCEPT !.sub = clk.now, !.pc = "sleep"]
              ELSE [clk EXCEPT !.sub = clk.now, !.last = clk.now, !.pc = "tick"]
    /\ UNCHANGED notClk

\* line 339: time.sleep(subtick_interval); continue
clk_sleep ==
    /\ clk.pc = "sleep"
    /\ clk.now < MaxTime
    /\ \E j \in 0..MaxJitter :
          clk' = [clk EXCEPT !.now = clk.now + SubtickInterval + j, !.pc = "loop"]
    /\ UNCHANGED notClk

\* lines 345-377: total_elapsed is read and every trigger's predicate is
\* evaluated; an exception of a predicate ends the thread.  gap is the longest
\* stretch without a firing of the periodic trigger seen so far.
clk_tick ==
    /\ clk.pc = "tick"
    /\ \E w \in WorkTimes :
          LET total_elapsed == clk.now
              dr == delay_trigger_should_run(clk.form, clk.delay, total_elapsed, Granularity)
              pr == periodic_trigger_should_run(clk.period, total_elapsed, Granularity)
              since == total_elapsed - clk.lastPeriodic
          IN  clk' = IF dr = "TypeError"
                     THEN [clk EXCEPT !.pc = "crashed", !.nticks = clk.nticks + 1,
                                      !.first = IF clk.nticks = 0 THEN "raised" ELSE clk.first]
                     ELSE [clk EXCEPT
                             !.nDelay = IF dr = "run" THEN clk.nDelay + 1 ELSE clk.nDelay,
                             !.first = IF clk.nticks = 0
                                       THEN (IF dr = "run" THEN "fired" ELSE "missed")
                                       ELSE clk.first,
                             !.gap = IF since > clk.gap THEN since ELSE clk.gap,
                             !.lastPeriodic = IF pr THEN total_elapsed ELSE clk.lastPeriodic,
                             !.nticks = clk.nticks + 1,
                             !.now = clk.now + w,
                             !.pc = "after"]
    /\ UNCHANGED notClk

\* lines 379-382: time.sleep(subtick_interval - tick_elapsed); time.sleep
\* raises ValueError for a negative argument, which ends the thread
clk_sleep_after ==
    /\ clk.pc = "after"
    /\ clk.now < MaxTime
    /\ LET tick_elapsed == clk.now - clk.sub IN
       \E j \in 0..MaxJitter :
          clk' = IF SubtickInterval - tick_elapsed < 0
                 THEN [clk EXCEPT !.pc = "crashed"]
                 ELSE [clk EXCEPT !.now = clk.now + (SubtickInterval - tick_elapsed) + j,
                                  !.pc = "loop"]
    /\ UNCHANGED notClk

NextClock == clk_subtick \/ clk_sleep \/ clk_tick \/ clk_sleep_after

SpecClock == InitClock /\ [][NextClock]_vars

\* ------------------------------------------------- the address stores
\* ordinance.network.blacklist / whitelist (IPv4Dataset) with their files, and
\* the sets kept by ordinance.ext.network
Stores == {"blacklist", "whitelist"}
Other(s) == IF s = "blacklist" THEN "whitelist" ELSE "blacklist"

\* sample addresses as integers: 0.0.0.1 and 127.0.0.1
Addrs == {1, 2130706433}

\* operations made on the stores in one behaviour
MaxNetOps == 4

\* LOCAL_DATABASE_HEADER, abbreviated to its first three bytes ("Ord")
Header == << 79, 114, 100 >>

RECURSIVE ToBytes(_, _)
\* int.to_bytes(n): n bytes, most significant first
ToBytes(v, n) == IF n = 0 THEN << >> ELSE ToBytes(v \div 256, n - 1) \o << v % 256 >>

RECURSIVE FromBytes(_)
\* int.from_bytes(data): most significant byte first; b'' gives 0
FromBytes(b) ==
    IF b = << >> THEN 0 ELSE FromBytes(SubSeq(b, 1, Len(b) - 1)) * 256 + b[Len(b)]

RECURSIVE FromBytes_Little(_)
\* (mutant) least significant byte first
FromBytes_Little(b) ==
    IF b = << >> THEN 0 ELSE b[1] + 256 * FromBytes_Little(Tail(b))

\* _deserialize, one entry: val = int.from_bytes(read_n(4))
DecodeEntry(b) == FromBytes(b)

\* the orders in which a set can be iterated
Orders(S) == {o \in [1..Cardinality(S) -> S] : \A i, j \in 1..Cardinality(S) : o[i] = o[j] => i = j}

RECURSIVE SerializeEntries(_)
SerializeEntries(o) ==
    IF o = << >> THEN << >> ELSE ToBytes(Head(o), 4) \o SerializeEntries(Tail(o))

\* IPv4Dataset._serialize, the set iterated in order o
Serialize(o) == ToBytes(Len(o), 8) \o SerializeEntries(o)

Min(a, b) == IF a < b THEN a ELSE b

\* IPv4Dataset._deserialize on the bytes after the header: the count is what
\* file.read(8) gives (possibly fewer bytes), each entry needs four bytes
Deserialize(body) ==
    LET cnt == FromBytes(SubSeq(body, 1, Min(8, Len(body))))
        rest == SubSeq(body, 9, Len(body))
    IN  IF Len(rest) < 4 * cnt
        THEN [res |-> "ValueError", set |-> {}]
        ELSE [res |-> "ok",
              set |-> {DecodeEntry(SubSeq(rest, 4 * i - 3, 4 * i)) : i \in 1..cnt}]

\* BaseDataset.read: data != LOCAL_DATABASE_HEADER raises OSError
HeaderOk(data) == data = Header

\* BaseDataset.read on file f by a store holding db: what it raises or
\* returns, the store's new content and the file's
ReadStore(f, db) ==
    IF ~f.exists
    THEN [res |-> "ok", db |-> db, file |-> [exists |-> TRUE, bytes |-> Header]]
    ELSE IF ~HeaderOk(SubSeq(f.bytes, 1, Min(Len(Header), Len(f.bytes))))
    THEN [res |-> "OSError", db |-> db, file |-> f]
    ELSE LET d == Deserialize(SubSeq(f.bytes, Len(Header) + 1, Len(f.bytes))) IN
         [res |-> d.res, db |-> IF d.res = "ok" THEN d.set ELSE db, file |-> f]

\* parse_path: a missing file is created holding the header
parse_path(f) == IF f.exists THEN f ELSE [exists |-> TRUE, bytes |-> Header]

\* what a damaged file may hold: nothing, a wrong first byte, a count with
\* no entries behind it
CorruptFiles ==
    { << >>, << 0, 114, 100 >> \o Serialize(<< 1 >>), Header \o ToBytes(1, 8) }

NoFile == [exists |-> FALSE, bytes |-> << >>]
Unknown == [known |-> FALSE, set |-> {}]

\* no operation of the program on a store was the last thing to happen
NoOp == [op |-> "-", store |-> "-", res |-> "-", fresh |-> FALSE]

\* a new process before ordinance.network is imported; nothing on disk
NetInit ==
    net = [pc |-> "import",
           db |-> [s \in Stores |-> {}],
           x |-> [s \in Stores |-> {}],
           file |-> [s \in Stores |-> NoFile],
           src |-> [s \in Stores |-> Unknown],
           fresh |-> Stores,
           last |-> NoOp,
           nops |-> 0]

InitNet ==
    /\ bundles = [q \in Qnames |-> << >>]
    /\ CoreInit
    /\ clk = ClkOff /\ NetInit /\ fw = FwOff /\ RestOff

notNet == << bundles, plugins, schedules, commands, sysModules, activeThreads, workers,
             call, loopClosed, sched, shouldRun, coreRunning, stopLog, unloaded, nextId,
             ncalls, ticks, clk, fw, resting >>

\* the record of an operation on store s that ended with res
Did(n, op, s, res) ==
    [n EXCEPT !.last = [op |-> op, store |-> s, res |-> res, fresh |-> s \in n.fresh],
              !.fresh = n.fresh \ {s},
              !.nops = n.nops + 1]

CanOp == net.pc = "run" /\ net.nops < MaxNetOps

\* network.py lines 157-158: both stores are constructed at import
net_import ==
    /\ net.pc = "import"
    /\ net' = [net EXCEPT !.file = [s \in Stores |-> parse_path(net.file[s])],
                          !.pc = "read_blacklist"]
    /\ UNCHANGED notNet

\* (mutant) the failed store is left as it is and read_dbs gives up
AfterFailedRead_GiveUp(s, db) == [db |-> db, pc |-> "failed"]

\* read_dbs, the except branch: the store is cleared and read_dbs goes on
AfterFailedRead(s, db) ==
    [db |-> {}, pc |-> IF s = "blacklist" THEN "read_whitelist" ELSE "run"]

\* read_dbs, lines 8-13 for the blacklist and 15-20 for the whitelist
read_dbs ==
    \E s \in Stores :
        /\ net.pc = "read_" \o s
        /\ LET r == ReadStore(net.file[s], net.db[s])
               a == IF r.res = "ok"
                    THEN [db |-> r.db, pc |-> IF s = "blacklist" THEN "read_whitelist" ELSE "run"]
                    ELSE AfterFailedRead(s, r.db)
           IN  net' = [net EXCEPT !.db[s] = a.db, !.file[s] = r.file, !.pc = a.pc,
                                  !.fresh = net.fresh \ {s},
                                  !.last = [op |-> "read_dbs", store |-> s, res |-> r.res,
                                            fresh |-> s \in net.fresh]]
        /\ UNCHANGED notNet

\* BaseDataset.add
ds_add ==
    /\ CanOp
    /\ \E s \in Stores, v \in Addrs :
          net' = [Did(net, "add", s, "ok") EXCEPT !.db[s] = net.db[s] \cup {v}]
    /\ UNCHANGED notNet

\* BaseDataset.delete: set.remove raises KeyError for a value not held
ds_delete ==
    /\ CanOp
    /\ \E s \in Stores, v \in Addrs :
          net' = IF v \in net.db[s]
                 THEN [Did(net, "delete", s, "ok") EXCEPT !.db[s] = net.db[s] \ {v}]
                 ELSE Did(net, "delete", s, "KeyError")
    /\ UNCHANGED notNet

\* BaseDataset.update_to
ds_update_to ==
    /\ CanOp
    /\ \E s \in Stores, V \in SUBSET Addrs :
          net' = [Did(net, "update_to", s, "ok") EXCEPT !.db[s] = V]
    /\ UNCHANGED notNet

\* BaseDataset.clear
ds_clear ==
    /\ CanOp
    /\ \E s \in Stores : net' = [Did(net, "clear", s, "ok") EXCEPT !.db[s] = {}]
    /\ UNCHANGED notNet

\* typed + self.__db of line 192: Python's set has no + operator
SetPlus(a, b) == [exc |-> "TypeError", value |-> {}]

\* BaseDataset.union: the values of other are type-cast, then the two sets
\* are added; the store is not written
ds_union ==
    /\ CanOp
    /\ \E s \in Stores, other \in SUBSET Addrs :
          LET sum == SetPlus(other, net.db[s])
          IN  net' = [net EXCEPT !.last = [op |-> "union", store |-> s,
                                           res |-> IF sum.exc # "-" THEN sum.exc ELSE "ok",
                                           fresh |-> s \in net.fresh],
                                 !.nops = net.nops + 1]
    /\ UNCHANGED notNet

\* BaseDataset.flush: the header, then _serialize of the set
ds_flush ==
    /\ CanOp
    /\ \E s \in Stores : \E o \in Orders(net.db[s]) :
          net' = [Did(net, "flush", s, "ok") EXCEPT
                     !.file[s] = [exists |-> TRUE, bytes |-> Header \o Serialize(o)],
                     !.src[s] = [known |-> TRUE, set |-> net.db[s]]]
    /\ UNCHANGED notNet

\* BaseDataset.read called on a store in use
ds_read ==
    /\ CanOp
    /\ \E s \in Stores :
          LET r == ReadStore(net.file[s], net.db[s]) IN
          net' = [Did(net, "read", s, r.res) EXCEPT !.db[s] = r.db, !.file[s] = r.file]
    /\ UNCHANGED notNet

\* ext.network blacklist(ip) / whitelist(ip): one address, checked against
\* the other set
ext_add ==
    /\ CanOp
    /\ \E s \in Stores, v \in Addrs :
          net' = IF v \in net.x[Other(s)]
                 THEN Did(net, "ext_add", s,
                          IF s = "blacklist" THEN "IPWhitelisted" ELSE "IPBlacklisted")
                 ELSE [Did(net, "ext_add", s, "ok") EXCEPT !.x[s] = net.x[s] \cup {v}]
    /\ UNCHANGED notNet

\* ext.network blacklist(set) / whitelist(set): each member with _check=False
ext_add_set ==
    /\ CanOp
    /\ \E s \in Stores, V \in SUBSET Addrs :
          net' = [Did(net, "ext_add_set", s, "ok") EXCEPT !.x[s] = net.x[s] \cup V]
    /\ UNCHANGED notNet

\* ext.network un_blacklist(ip) / un_whitelist(ip)
ext_remove ==
    /\ CanOp
    /\ \E s \in Stores, v \in Addrs :
          net' = IF v \notin net.x[s]
                 THEN Did(net, "ext_remove", s,
                          IF s = "blacklist" THEN "IPNotBlacklisted" ELSE "IPNotWhitelisted")
                 ELSE [Did(net, "ext_remove", s, "ok") EXCEPT !.x[s] = net.x[s] \ {v}]
    /\ UNCHANGED notNet

\* ext.network un_blacklist(set) / un_whitelist(set): members are removed
\* unchecked, in iteration order, until one is not held (KeyError)
ext_remove_set ==
    /\ CanOp
    /\ \E s \in Stores, V \in SUBSET Addrs :
          IF V \subseteq net.x[s]
          THEN net' = [Did(net, "ext_remove_set", s, "ok") EXCEPT !.x[s] = net.x[s] \ V]
          ELSE \E W \in SUBSET (V \cap net.x[s]) :
                  net' = [Did(net, "ext_remove_set", s, "KeyError") EXCEPT
                             !.x[s] = net.x[s] \ W]
    /\ UNCHANGED notNet

\* the file of a store is damaged or removed behind the program's back
fs_damage ==
    /\ CanOp
    /\ \E s \in Stores :
          \/ \E c \in CorruptFiles :
                net' = [net EXCEPT !.file[s] = [exists |-> TRUE, bytes |-> c],
                                   !.src[s] = Unknown, !.nops = net.nops + 1,
                                   !.last = NoOp]
          \/ net' = [net EXCEPT !.file[s] = NoFile, !.src[s] = Unknown,
                                !.nops = net.nops + 1, !.last = NoOp]
    /\ UNCHANGED notNet

\* the process ends and a new one starts: fresh stores, the files stay
net_restart ==
    /\ CanOp
    /\ net' = [net EXCEPT !.pc = "import",
                          !.db = [s \in Stores |-> {}],
                          !.x = [s \in Stores |-> {}],
                          !.fresh = Stores,
                          !.last = NoOp,
                          !.nops = net.nops + 1]
    /\ UNCHANGED notNet

NextNet ==
    \/ net_import \/ read_dbs \/ net_restart \/ fs_damage
    \/ ds_add \/ ds_delete \/ ds_update_to \/ ds_clear \/ ds_flush \/ ds_read \/ ds_union
    \/ ext_add \/ ext_add_set \/ ext_remove \/ ext_remove_set

SpecNet == InitNet /\ [][NextNet]_vars

\* ------------------------------------------------------- setup_iptables
\* The kernel state the commands act on: the ORDINANCE chain, the jumps to it
\* from INPUT, its DROP rule on the address-set, its other rules, and the
\* ORDINANCE_BLACKLIST address-set.  newChain / newSet tell whether this run
\* of setup_iptables made them.
MaxJumps == 2
MaxRules == 1
\* DROP rules on the address-set the chain may come to hold
MaxDrops == 2
\* runs of setup_iptables (program starts) in one behaviour
MaxRuns == 2

\* any state an earlier run (or nobody) may have left
FwInit ==
    /\ fw \in {[pc |-> "del_jump", chain |-> c, jumps |-> j, drop |-> d, rules |-> r,
                set |-> s,
                newChain |-> FALSE, newSet |-> FALSE, ret |-> "-", runs |-> 1,
                core |-> "constructing", push |-> "-"] :
               c \in BOOLEAN, j \in 0..MaxJumps, d \in 0..MaxDrops, r \in 0..MaxRules,
               s \in BOOLEAN}
    /\ ((fw.jumps > 0 \/ fw.rules > 0 \/ fw.drop > 0) => fw.chain)
    /\ (fw.drop > 0 => fw.set)

InitFw ==
    /\ bundles = [q \in Qnames |-> << >>]
    /\ CoreInit
    /\ clk = ClkOff /\ net = NetOff /\ FwInit /\ RestOff

notFw == << bundles, plugins, schedules, commands, sysModules, activeThreads, workers,
            call, loopClosed, sched, shouldRun, coreRunning, stopLog, unloaded, nextId,
            ncalls, ticks, clk, net, resting >>

\* can_fail_commands[0]: iptables -D INPUT -j ORDINANCE
fw_del_jump ==
    /\ fw.pc = "del_jump"
    /\ fw' = [fw EXCEPT !.jumps = IF fw.chain /\ fw.jumps > 0 THEN fw.jumps - 1 ELSE fw.jumps,
                        !.pc = "del_drop"]
    /\ UNCHANGED notFw

\* can_fail_commands[1]: iptables -D ORDINANCE -m set --match-set ORDINANCE_BLACKLIST src -j DROP
\* (-D with a rule specification deletes one matching rule)
fw_del_drop ==
    /\ fw.pc = "del_drop"
    /\ fw' = [fw EXCEPT !.drop = IF fw.drop > 0 THEN fw.drop - 1 ELSE 0,
                        !.pc = "destroy_delete"]
    /\ UNCHANGED notFw

\* can_fail_commands[2]: the two adjacent string literals (no comma between
\* them) make one command, "ipset destroy ORDINANCE_BLACKLISTiptables
\* --delete-chain ORDINANCE", which ipset rejects: neither the address-set
\* nor the chain is removed
fw_destroy_delete ==
    /\ fw.pc = "destroy_delete"
    /\ fw' = [fw EXCEPT !.pc = "new_chain"]
    /\ UNCHANGED notFw

\* must_succeed_commands, lines 43-48: a non-zero status ends setup_iptables
\* with False
Failed(f) == [f EXCEPT !.pc = "returned", !.ret = "False"]

\* iptables -N ORDINANCE: fails when the chain exists
fw_new_chain ==
    /\ fw.pc = "new_chain"
    /\ fw' = IF fw.chain THEN Failed(fw)
             ELSE [fw EXCEPT !.chain = TRUE, !.newChain = TRUE, !.pc = "flush_chain"]
    /\ UNCHANGED notFw

\* iptables -F ORDINANCE
fw_flush_chain ==
    /\ fw.pc = "flush_chain"
    /\ fw' = IF ~fw.chain THEN Failed(fw)
             ELSE [fw EXCEPT !.rules = 0, !.drop = 0, !.pc = "insert_jump"]
    /\ UNCHANGED notFw

\* iptables -I INPUT -j ORDINANCE
fw_insert_jump ==
    /\ fw.pc = "insert_jump"
    /\ fw' = IF ~fw.chain THEN Failed(fw)
             ELSE [fw EXCEPT !.jumps = fw.jumps + 1, !.pc = "create_set"]
    /\ UNCHANGED notFw

\* ipset create ORDINANCE_BLACKLIST hash:ip: fails when the set exists;
\* line 49: return True
fw_create_set ==
    /\ fw.pc = "create_set"
    /\ fw' = IF fw.set THEN Failed(fw)
             ELSE [fw EXCEPT !.set = TRUE, !.newSet = TRUE, !.pc = "returned", !.ret = "True"]
    /\ UNCHANGED notFw

\* Core.__init__ line 149 and on: the value setup_iptables returned is not
\* looked at; the constructor goes on with the registries, the plugin loads
\* and the scheduler thread, and sets __core_running (line 188)
fw_ctor_goes_on ==
    /\ fw.pc = "returned"
    /\ fw' = [fw EXCEPT !.pc = "running", !.core = "running"]
    /\ UNCHANGED notFw

\* flush_blacklist_to_iptables: ipset restore of the blacklist into the
\* address-set (restored: whether ipset takes the file), then
\* iptables -I ORDINANCE -m set --match-set ORDINANCE_BLACKLIST src -j DROP,
\* which inserts one more rule; either failing raises NetworkException
fw_flush_blacklist ==
    /\ fw.pc = "running"
    /\ fw.drop < MaxDrops
    /\ \E restored \in BOOLEAN :
          fw' = IF restored /\ fw.set /\ fw.chain
                THEN [fw EXCEPT !.drop = fw.drop + 1, !.push = "ok"]
                ELSE [fw EXCEPT !.push = "NetworkException"]
    /\ UNCHANGED notFw

\* create_iptables_rule: iptables -A ORDINANCE -j ... --dport ...
fw_create_rule ==
    /\ fw.pc = "running"
    /\ fw.rules < MaxRules
    /\ fw' = [fw EXCEPT !.rules = IF fw.chain THEN fw.rules + 1 ELSE fw.rules,
                        !.pc = "running"]
    /\ UNCHANGED notFw

\* delete_iptables_rule: iptables -D ORDINANCE -j ... --dport ...
fw_delete_rule ==
    /\ fw.pc = "running"
    /\ fw' = [fw EXCEPT !.rules = IF fw.rules > 0 THEN fw.rules - 1 ELSE fw.rules,
                        !.pc = "running"]
    /\ UNCHANGED notFw

\* the program ends (Core.stop leaves the firewall as it is) and is started
\* again: Core.__init__ line 149 calls setup_iptables
fw_next_run ==
    /\ fw.pc = "running"
    /\ fw.runs < MaxRuns
    /\ fw' = [fw EXCEPT !.pc = "del_jump", !.newChain = FALSE, !.newSet = FALSE,
                        !.ret = "-", !.runs = fw.runs + 1, !.core = "constructing",
                        !.push = "-"]
    /\ UNCHANGED notFw

NextFw ==
    \/ fw_del_jump \/ fw_del_drop \/ fw_destroy_delete
    \/ fw_new_chain \/ fw_flush_chain \/ fw_insert_jump \/ fw_create_set
    \/ fw_ctor_goes_on
    \/ fw_flush_blacklist \/ fw_create_rule \/ fw_delete_rule \/ fw_next_run

SpecFw == InitFw /\ [][NextFw]_vars

\* ------------------------------------- registering triggers on a callback
\* One ScheduledFunction.  __triggers is a dict: a list of entries in insertion
\* order, each the key it is stored under and the trigger object.
DayTotal == 86400
WeekTotal == DayTotal * 7
MonthTotal == DayTotal * 28
MaxTrigOps == 3
GivenIds == {"a", "b"}
RandomIds == {"trigger-1", "trigger-2"}
NoId == ""
Aligns == {"day", "week", "month", "year"}
Intos == {0 - 3600, 3600, DayTotal, DayTotal + 3600}
TrigSecs == {10, 20}
TrigEvents == {"e", "f"}

\* trig_cls(id, daemonic, *args) for the four trigger classes
CalendarTrigger(id, daemonic, align_to, seconds_into) ==
    [kind |-> "calendar", id |-> id, daemonic |-> daemonic, align |-> align_to,
     sec |-> seconds_into, event |-> "-"]
DelayTrigger(id, daemonic, delay_sec) ==
    [kind |-> "delay", id |-> id, daemonic |-> daemonic, align |-> "-",
     sec |-> delay_sec, event |-> "-"]
EventTrigger(id, daemonic, event) ==
    [kind |-> "event", id |-> id, daemonic |-> daemonic, align |-> "-",
     sec |-> 0, event |-> event]
PeriodicTrigger(id, daemonic, period_sec) ==
    [kind |-> "periodic", id |-> id, daemonic |-> daemonic, align |-> "-",
     sec |-> period_sec, event |-> "-"]

\* BaseTrigger.__eq__: objects of one class, equal in every annotated property
\* of that class; id and daemonic are skipped
TriggerEq(a, b) ==
    /\ a.kind = b.kind
    /\ CASE a.kind = "calendar" -> a.align = b.align /\ a.sec = b.sec
         [] a.kind = "event" -> a.event = b.event
         [] OTHER -> a.sec = b.sec

TrigKeys(T) == {T[i].key : i \in 1..Len(T)}

\* ScheduledFunction.__add_trigger with the lock held: the outcome and the
\* dict it leaves.  asked is the trigger as the caller describes it, rnd the
\* id random.random() yields when none is given.
\* The loop of line 106 binds id again, so the store of line 110 goes to the
\* key the loop visited last.
add_trigger(T, asked, id_in, rnd) ==
    LET id == IF id_in = NoId THEN rnd ELSE id_in
        new == [asked EXCEPT !.id = id]
    IN  IF id \in TrigKeys(T)
        THEN [res |-> "SchedulerError: id already defined", id |-> id, T |-> T]
        ELSE IF \E i \in 1..Len(T) : TriggerEq(new, T[i].trig)
        THEN [res |-> "NameError", id |-> id, T |-> T]
        ELSE IF T = << >>
        THEN [res |-> "ok", id |-> id, T |-> << [key |-> id, trig |-> new] >>]
        ELSE [res |-> "ok", id |-> T[Len(T)].key,
              T |-> [T EXCEPT ![Len(T)] = [key |-> T[Len(T)].key, trig |-> new]]]

\* add_calendar_trigger's inner _cap: into_sec is assigned in the inner
\* function, hence local to it, and is read by the loop test before any
\* assignment
cap(into_sec, totlen) == [exc |-> "UnboundLocalError", into_sec |-> into_sec]

NoReg == [op |-> "-", res |-> "-", id |-> "-", new |-> CalendarTrigger("-", FALSE, "-", 0)]

TrgInit == trg = [pc |-> "run", triggers |-> << >>, last |-> NoReg, nops |-> 0]

InitTrg ==
    /\ bundles = [q \in Qnames |-> << >>]
    /\ CoreInit
    /\ clk = ClkOff /\ net = NetOff /\ fw = FwOff
    /\ TrgInit /\ cal = Off /\ cmd = Off /\ wr = Off /\ disc = Off /\ dm = Off /\ ipx = Off

notTrg == << coreVars, clk, net, fw, cal, cmd, wr, disc, dm, ipx >>

\* the registration recorded: what was asked, how it ended, the dict after it
Registered(op, new, out) ==
    [trg EXCEPT !.triggers = out.T,
                !.last = [op |-> op, res |-> out.res, id |-> out.id, new |-> new],
                !.nops = trg.nops + 1]

CanRegister == trg.pc = "run" /\ trg.nops < MaxTrigOps

add_calendar_trigger ==
    /\ CanRegister
    /\ \E align_to \in Aligns, into \in Intos, id \in GivenIds \cup {NoId},
          rnd \in RandomIds, daemonic \in BOOLEAN :
          LET totlen == IF align_to = "day" THEN DayTotal
                        ELSE IF align_to = "week" THEN WeekTotal ELSE MonthTotal
              capped == cap(into, totlen)
              asked == CalendarTrigger(id, daemonic, align_to, into)
          IN  trg' = IF align_to \notin {"day", "week", "month"}
                     THEN Registered("add_calendar_trigger", asked,
                             [res |-> "SchedulerError: unknown calendar type", id |-> id,
                              T |-> trg.triggers])
                     ELSE IF capped.exc # "-"
                     THEN Registered("add_calendar_trigger", asked,
                             [res |-> capped.exc, id |-> id, T |-> trg.triggers])
                     ELSE Registered("add_calendar_trigger", asked,
                             add_trigger(trg.triggers,
                                 CalendarTrigger(id, daemonic, align_to, capped.into_sec),
                                 id, rnd))
    /\ UNCHANGED notTrg

add_delay_trigger ==
    /\ CanRegister
    /\ \E delay \in TrigSecs, id \in GivenIds \cup {NoId}, rnd \in RandomIds,
          daemonic \in BOOLEAN :
          trg' = Registered("add_delay_trigger", DelayTrigger(id, daemonic, delay),
                     add_trigger(trg.triggers, DelayTrigger(id, daemonic, delay),
                                 id, rnd))
    /\ UNCHANGED notTrg

add_event_trigger ==
    /\ CanRegister
    /\ \E event \in TrigEvents, id \in GivenIds \cup {NoId}, rnd \in RandomIds,
          daemonic \in BOOLEAN :
          trg' = Registered("add_event_trigger", EventTrigger(id, daemonic, event),
                     add_trigger(trg.triggers, EventTrigger(id, daemonic, event),
                                 id, rnd))
    /\ UNCHANGED notTrg

add_periodic_trigger ==
    /\ CanRegister
    /\ \E delta \in TrigSecs, id \in GivenIds \cup {NoId}, rnd \in RandomIds,
          daemonic \in BOOLEAN :
          trg' = Registered("add_periodic_trigger", PeriodicTrigger(id, daemonic, delta),
                     add_trigger(trg.triggers, PeriodicTrigger(id, daemonic, delta),
                                 id, rnd))
    /\ UNCHANGED notTrg

NextTrg ==
    \/ add_calendar_trigger \/ add_delay_trigger
    \/ add_event_trigger \/ add_periodic_trigger

SpecTrg == InitTrg /\ [][NextTrg]_vars

\* ------------------------------------------------ the calendar predicate
\* The wall clock is a date, given by its day of the month and its weekday
\* (Monday 0), and the second of that day; aware tells whether the datetime
\* carries a timezone, as the one the scheduler loop passes does (line 345).
MaxCalSteps == 2
CalDays == {1, 2, 15}
CalWeekdays == {0, 3}
CalSeconds == {0, 3600, 3610, 7200}
CalIntos == {0, 3600}
CalGranularities == {0, TickInterval \div 2}
HourStep == 3600

\* datetime.datetime(year, month, day): a day below 1 is refused
datetime_of(day) == IF day < 1 THEN "ValueError" ELSE "ok"

\* calendar_trigger_should_run(trigger, now, granularity)
calendar_trigger_should_run(align_to, seconds_into, now, granularity) ==
    LET start_day == IF align_to = "month" THEN 0
                     ELSE IF align_to = "week" THEN now.day - now.weekday
                     ELSE now.day
        \* seconds from period_start + seconds_into to now, both read as naive
        delta == seconds_into - ((now.day - start_day) * DayTotal + now.sec)
    IN  IF datetime_of(start_day) # "ok" THEN datetime_of(start_day)
        ELSE IF now.aware THEN "TypeError"
        ELSE IF Abs(delta) <= granularity THEN "run" ELSE "no"

CalInit ==
    \E a \in {"day", "week", "month"}, i \in CalIntos, d \in CalDays, w \in CalWeekdays,
       t \in CalSeconds, tz \in BOOLEAN, g \in CalGranularities :
        cal = [pc |-> "run", align |-> a, into |-> i, granularity |-> g,
               now |-> [day |-> d, weekday |-> w, sec |-> t, aware |-> tz],
               res |-> "-", n |-> 0]

InitCal ==
    /\ bundles = [q \in Qnames |-> << >>]
    /\ CoreInit
    /\ clk = ClkOff /\ net = NetOff /\ fw = FwOff
    /\ trg = Off /\ CalInit /\ cmd = Off /\ wr = Off /\ disc = Off /\ dm = Off /\ ipx = Off

notCal == << coreVars, clk, net, fw, trg, cmd, wr, disc, dm, ipx >>

\* calendar_filter of the tick: the predicate is asked about the present time
cal_check ==
    /\ cal.pc = "run"
    /\ cal.res = "-"
    /\ cal' = [cal EXCEPT !.res = calendar_trigger_should_run(cal.align, cal.into,
                                      cal.now, cal.granularity)]
    /\ UNCHANGED notCal

\* an hour of the same day passes before the predicate is asked again
cal_advance ==
    /\ cal.pc = "run"
    /\ cal.res # "-"
    /\ cal.n < MaxCalSteps
    /\ cal.now.sec + HourStep < DayTotal
    /\ cal' = [cal EXCEPT !.now.sec = cal.now.sec + HourStep, !.res = "-", !.n = cal.n + 1]
    /\ UNCHANGED notCal

NextCal == cal_check \/ cal_advance

SpecCal == InitCal /\ [][NextCal]_vars

\* ------------------------------------------- run.py and Core.command
\* A line is the words on it; pad tells whether blanks surround them.  The
\* string is empty (falsy) when it has neither words nor blanks.
MaxInputs == 2
Words == {<< >>, << "stop" >>, << "status" >>, << "alert" >>, << "alert", "x" >>, << "foo" >>}
Lines == [pad : BOOLEAN, words : Words]

\* input("> ").strip().lstrip().lower()
Strip(line) == [pad |-> FALSE, words |-> line.words]

IsEmpty(line) == ~line.pad /\ line.words = << >>
Is(line, word) == ~line.pad /\ line.words = << word >>

\* Core.command past the 'stop' branch (lines 427-444): the token returned, or
\* the exception raised
CommandToken(line) ==
    IF IsEmpty(line) THEN "None"
    ELSE IF Is(line, "status") THEN "0"
    ELSE IF Len(line.words) > 1 /\ line.words[1] = "alert" THEN "0"
    ELSE IF line.words = << >> THEN "IndexError"
    ELSE "-2"

\* Core.stop, lines 196-204, entered from the main thread
StopEntry ==
    IF ~coreRunning
    THEN [IdleCall EXCEPT !.op = "stop", !.pc = "st_ret", !.res = "AlreadyStopped"]
    ELSE [IdleCall EXCEPT !.op = "stop", !.pc = "st_unload", !.todo = QOrder]

CmdInit == cmd = [pc |-> "loop", inp |-> [pad |-> FALSE, words |-> << >>],
                  tok |-> "-", exc |-> "-", nin |-> 0]

InitCmd ==
    /\ bundles \in {[q \in Qnames |-> IF q = "q1" THEN Q1Defs ELSE d] : d \in {Q2Defs, Q2DefsNoStop}}
    /\ CoreInit
    /\ clk = ClkOff /\ net = NetOff /\ fw = FwOff
    /\ trg = Off /\ cal = Off /\ CmdInit /\ wr = Off /\ disc = Off /\ dm = Off /\ ipx = Off

notCmdStop == << clk, net, fw, trg, cal, wr, disc, dm, ipx, bundles, plugins, schedules, commands, sysModules,
                 activeThreads, workers, loopClosed, sched, shouldRun, coreRunning,
                 unloaded, nextId, ncalls, ticks >>

\* Core(...) has returned to run.py
CtorReturned == call["main"].pc = "idle" /\ sched.pc # "notstarted"

\* run.py line 35: while core.running
cmd_loop ==
    /\ cmd.pc = "loop"
    /\ CtorReturned
    /\ cmd' = [cmd EXCEPT !.pc = IF coreRunning THEN "command" ELSE "ended"]
    /\ UNCHANGED << coreVars, clk, net, fw, trg, cal, wr, disc, dm, ipx >>

\* run.py line 36 into Core.command: 'stop' calls self.stop(), any other line
\* is answered at once
cmd_command ==
    /\ cmd.pc = "command"
    /\ IF Is(cmd.inp, "stop")
       THEN /\ call' = [call EXCEPT !["main"] = StopEntry]
            /\ stopLog' = IF coreRunning THEN Append(stopLog, << "api", "-" >>) ELSE stopLog
            /\ cmd' = [cmd EXCEPT !.pc = "in_stop"]
       ELSE /\ cmd' = IF CommandToken(cmd.inp) = "IndexError"
                      THEN [cmd EXCEPT !.pc = "raised", !.exc = "IndexError"]
                      ELSE [cmd EXCEPT !.pc = "token", !.tok = CommandToken(cmd.inp)]
            /\ UNCHANGED << call, stopLog >>
    /\ UNCHANGED notCmdStop

\* self.stop() is over: line 426 returns -1, or the exception stop() raised
\* leaves command() and, not being a KeyboardInterrupt, run.py
cmd_stop_returns ==
    /\ cmd.pc \in {"in_stop", "kbd_stop"}
    /\ call["main"].pc = "st_ret"
    /\ cmd' = IF Raised(call["main"])
              THEN [cmd EXCEPT !.pc = IF cmd.pc = "in_stop" THEN "raised" ELSE "kbd_raised",
                               !.exc = call["main"].res]
              ELSE IF cmd.pc = "in_stop" THEN [cmd EXCEPT !.pc = "token", !.tok = "-1"]
              ELSE [cmd EXCEPT !.pc = "ended"]
    /\ call' = [call EXCEPT !["main"] = IdleCall]
    /\ UNCHANGED << stopLog, notCmdStop >>

\* run.py lines 36-38: the token is compared with -1
cmd_token ==
    /\ cmd.pc = "token"
    /\ cmd' = [cmd EXCEPT !.pc = IF cmd.tok = "-1" THEN "ended" ELSE "input"]
    /\ UNCHANGED << coreVars, clk, net, fw, trg, cal, wr, disc, dm, ipx >>

\* run.py line 39: the next line is read and stripped
cmd_input ==
    /\ cmd.pc = "input"
    /\ cmd.nin < MaxInputs
    /\ \E line \in Lines :
          cmd' = [cmd EXCEPT !.pc = "loop", !.inp = Strip(line), !.tok = "-",
                             !.nin = cmd.nin + 1]
    /\ UNCHANGED << coreVars, clk, net, fw, trg, cal, wr, disc, dm, ipx >>

\* run.py lines 40-41: Ctrl-C at the prompt, the handler calls core.stop()
cmd_interrupt ==
    /\ cmd.pc = "input"
    /\ call' = [call EXCEPT !["main"] = StopEntry]
    /\ stopLog' = IF coreRunning THEN Append(stopLog, << "api", "-" >>) ELSE stopLog
    /\ cmd' = [cmd EXCEPT !.pc = "kbd_stop", !.tok = "-"]
    /\ UNCHANGED notCmdStop

\* a call made by the constructor or by stop() hands back to it
cmd_inner_return == call["main"].pc # "st_ret" /\ Return("main")

\* the main thread inside Core(...) or inside stop()
cmd_core_step ==
    \/ ctor_load("main") \/ ctor_start("main")
    \/ load_module("main") \/ load_exec("main") \/ load_except("main") \/ load_install("main")
    \/ unload_join_enter("main") \/ unload_join_one("main") \/ unload_joined("main")
    \/ unload_del("main") \/ unload_finally("main")
    \/ fire_read_schedules("main") \/ fire_spawn("main") \/ fire_extend("main")
    \/ stop_unload("main") \/ stop_teardown("main")
    \/ cmd_inner_return

NextCmd ==
    \/ cmd_loop \/ cmd_command \/ cmd_stop_returns \/ cmd_token \/ cmd_input \/ cmd_interrupt
    \/ cmd_core_step \/ SchedStep \/ worker_finish

SpecCmd == InitCmd /\ [][NextCmd]_vars

\* --------------------------------------------------------- ordinance.writer
\* A sink is the one instance of a writer type; __enabled is the list of the
\* instances made, named here by their types.
MaxWrOps == 3
MaxMsgs == 1
WriterNames == {"stdout", "logfile", "custom"}
KnownWriters == {"stdout", "logfile"}
Producers == {"p1", "p2"}

IdleProducer == [pc |-> "idle", i |-> 0, n |-> 0, res |-> "-"]

WrInit == wr = [pc |-> "run", classes |-> KnownWriters, enabled |-> << >>,
                closed |-> {}, lock |-> [w \in WriterNames |-> "-"],
                inside |-> [w \in WriterNames |-> {}],
                prod |-> [p \in Producers |-> IdleProducer],
                last |-> [op |-> "-", name |-> "-", res |-> "-"], nops |-> 0]

InitWr ==
    /\ bundles = [q \in Qnames |-> << >>]
    /\ CoreInit
    /\ clk = ClkOff /\ net = NetOff /\ fw = FwOff
    /\ trg = Off /\ cal = Off /\ cmd = Off /\ WrInit /\ disc = Off /\ dm = Off /\ ipx = Off

notWr == << coreVars, clk, net, fw, trg, cal, cmd, disc, dm, ipx >>

\* (variant) enable without the loop of lines 106-108
enable_outcome_NoCheck(classes, enabled, name, ctor) ==
    IF name \notin classes THEN [res |-> "WriterNotFound", enabled |-> enabled]
    ELSE IF ctor # "ok" THEN [res |-> ctor, enabled |-> enabled]
    ELSE [res |-> "ok", enabled |-> Append(enabled, name)]

\* enable(name, config): the exception raised or "ok", and the list left.
\* ctor is how typ(config) ends.
enable_outcome(classes, enabled, name, ctor) ==
    IF name \notin classes THEN [res |-> "WriterNotFound", enabled |-> enabled]
    ELSE IF \E i \in 1..Len(enabled) : enabled[i] = name
    THEN [res |-> "WriterAlreadyEnabled", enabled |-> enabled]
    ELSE IF ctor # "ok" THEN [res |-> ctor, enabled |-> enabled]
    ELSE [res |-> "ok", enabled |-> Append(enabled, name)]

\* disable(name): the exception raised or "ok"; the list is not touched, the
\* instance found is closed
disable_outcome(classes, enabled, name) ==
    IF name \notin classes THEN "WriterNotFound"
    ELSE IF \E i \in 1..Len(enabled) : enabled[i] = name THEN "ok"
    ELSE "WriterAlreadyDisabled"

CanWrOp == wr.pc = "run" /\ wr.nops < MaxWrOps

wr_add_writer_type ==
    /\ CanWrOp
    /\ \E name \in WriterNames :
          wr' = [wr EXCEPT !.classes = wr.classes \cup {name},
                           !.last = [op |-> "add_writer_type", name |-> name,
                                     res |-> IF name \in wr.classes
                                             THEN "WriterException" ELSE "ok"],
                           !.nops = wr.nops + 1]
    /\ UNCHANGED notWr

wr_enable ==
    /\ CanWrOp
    /\ \E name \in WriterNames, ctor \in {"ok", "Exception"} :
          LET out == enable_outcome(wr.classes, wr.enabled, name, ctor)
          IN  wr' = [wr EXCEPT !.enabled = out.enabled,
                               !.last = [op |-> "enable", name |-> name, res |-> out.res],
                               !.nops = wr.nops + 1]
    /\ UNCHANGED notWr

wr_disable ==
    /\ CanWrOp
    /\ \E name \in WriterNames :
          LET res == disable_outcome(wr.classes, wr.enabled, name)
          IN  wr' = [wr EXCEPT !.closed = IF res = "ok" THEN wr.closed \cup {name}
                                          ELSE wr.closed,
                               !.last = [op |-> "disable", name |-> name, res |-> res],
                               !.nops = wr.nops + 1]
    /\ UNCHANGED notWr

\* (variant) the with statement taken away: nobody waits
LockFree_Always(n, w) == TRUE

\* threading.Lock.acquire returns once nobody holds the lock
LockFree(n, w) == n.lock[w] = "-"

\* ordinance.writer.info(*msg) and its like: for writer in __enabled
wr_emit(p) ==
    /\ wr.pc = "run"
    /\ wr.prod[p].pc = "idle"
    /\ wr.prod[p].n < MaxMsgs
    /\ wr' = [wr EXCEPT !.prod[p] = [pc |-> "next", i |-> 1, n |-> wr.prod[p].n + 1,
                                     res |-> "-"]]
    /\ UNCHANGED notWr

\* the list iterator: the next instance, if the list has one more
wr_next(p) ==
    /\ wr.prod[p].pc = "next"
    /\ wr' = IF wr.prod[p].i > Len(wr.enabled)
             THEN [wr EXCEPT !.prod[p].pc = "idle", !.prod[p].i = 0, !.prod[p].res = "ok"]
             ELSE [wr EXCEPT !.prod[p].pc = "acquire"]
    /\ UNCHANGED notWr

\* WriterBase.info: with self._handle_lock, then handle is entered
wr_acquire(p) ==
    /\ wr.prod[p].pc = "acquire"
    /\ LET w == wr.enabled[wr.prod[p].i] IN
       /\ LockFree(wr, w)
       /\ wr' = [wr EXCEPT !.lock[w] = p, !.inside[w] = wr.inside[w] \cup {p},
                           !.prod[p].pc = "handle"]
    /\ UNCHANGED notWr

\* handle returns or raises; either way the with block is left
wr_handle_done(p) ==
    /\ wr.prod[p].pc = "handle"
    /\ LET w == wr.enabled[wr.prod[p].i] IN
       \E how \in {"ok", "Exception"} :
          wr' = [wr EXCEPT !.inside[w] = wr.inside[w] \ {p},
                           !.prod[p].pc = "release", !.prod[p].res = how]
    /\ UNCHANGED notWr

\* the lock is released; an exception out of handle ends the producer's loop
wr_release(p) ==
    /\ wr.prod[p].pc = "release"
    /\ LET w == wr.enabled[wr.prod[p].i] IN
       wr' = [wr EXCEPT !.lock[w] = "-",
                        !.prod[p] = IF wr.prod[p].res = "ok"
                                    THEN [wr.prod[p] EXCEPT !.pc = "next", !.i = wr.prod[p].i + 1,
                                                            !.res = "-"]
                                    ELSE [wr.prod[p] EXCEPT !.pc = "idle", !.i = 0]]
    /\ UNCHANGED notWr

NextWr ==
    \/ wr_add_writer_type \/ wr_enable \/ wr_disable
    \/ \E p \in Producers :
          wr_emit(p) \/ wr_next(p) \/ wr_acquire(p) \/ wr_handle_done(p) \/ wr_release(p)

SpecWr == InitWr /\ [][NextWr]_vars

\* ----------------------------------------------------- fetch_all_qnames
\* A name is the list of its characters.  os.listdir gives the names under the
\* plugin root, each once, in any order; an entry is a directory or a file.
MaxEntries == 3
valid_qname_chars ==
    {"a", "b", "c", "d", "e", "f", "g", "h", "i", "j", "k", "l", "m", "n", "o", "p", "q",
     "r", "s", "t", "u", "v", "w", "x", "y", "z", "0", "1", "2", "3", "4", "5", "6", "7",
     "8", "9", ".", "-", "_", "+"}
DisabledName == << "d", "i", "s", "a", "b", "l", "e", "d" >>
EntryNames == {<< "q", "1" >>, << "q", ".", "2" >>, << "Q", "1" >>, DisabledName}
Entries == [name : EntryNames, isdir : BOOLEAN]

\* the listings os.listdir can return: no name twice
Listings ==
    {l \in UNION {[1..n -> Entries] : n \in 0..MaxEntries} :
        \A i \in 1..Len(l), j \in 1..Len(l) : i # j => l[i].name # l[j].name}

\* all(c in valid_qname_chars for c in fname)
AllValidChars(fname) == \A i \in 1..Len(fname) : fname[i] \in valid_qname_chars

\* the body of the loop of lines 42-52 for one name
ScanOne(valid_qnames, fname) ==
    IF fname = DisabledName THEN valid_qnames
    ELSE IF ~AllValidChars(fname) THEN valid_qnames
    ELSE IF fname \in valid_qnames THEN valid_qnames \ {fname}
    ELSE valid_qnames \cup {fname}

DiscInit == \E l \in Listings : disc = [pc |-> "scan", listing |-> l, i |-> 1,
                                        valid_qnames |-> {}]

InitDisc ==
    /\ bundles = [q \in Qnames |-> << >>]
    /\ CoreInit
    /\ clk = ClkOff /\ net = NetOff /\ fw = FwOff
    /\ trg = Off /\ cal = Off /\ cmd = Off /\ wr = Off /\ DiscInit /\ dm = Off /\ ipx = Off

notDisc == << coreVars, clk, net, fw, trg, cal, cmd, wr, dm, ipx >>

\* one turn of the loop over os.listdir(path)
disc_scan ==
    /\ disc.pc = "scan"
    /\ disc.i <= Len(disc.listing)
    /\ disc' = [disc EXCEPT !.valid_qnames = ScanOne(disc.valid_qnames,
                                                disc.listing[disc.i].name),
                            !.i = disc.i + 1]
    /\ UNCHANGED notDisc

\* line 53: return valid_qnames
disc_return ==
    /\ disc.pc = "scan"
    /\ disc.i > Len(disc.listing)
    /\ disc' = [disc EXCEPT !.pc = "returned"]
    /\ UNCHANGED notDisc

NextDisc == disc_scan \/ disc_return

SpecDisc == InitDisc /\ [][NextDisc]_vars

\* ------------------------------------------------------------- deep_merge
\* A configuration is a dict of two levels: a value of the upper level is a
\* leaf or a dict of leaves.  Leaves are Python literals; dict.get gives None
\* for a key that is absent.
Leaves == {"0", "5", "False", "'x'"}
Falsy == {"0", "False", "''", "None"}
TopKeys == {"a", "n"}
SubKeys == {"b"}
SubDicts == UNION {[D -> Leaves] : D \in SUBSET SubKeys}
EmptyDict == [k \in {} |-> "None"]
LeafVal(l) == [kind |-> "leaf", leaf |-> l, sub |-> EmptyDict]
DictVal(d) == [kind |-> "dict", leaf |-> "-", sub |-> d]
NoneVal == LeafVal("None")
Vals == {LeafVal(l) : l \in Leaves} \cup {DictVal(d) : d \in SubDicts}
Confs == UNION {[D -> Vals] : D \in SUBSET TopKeys}

\* dict.get(k)
Get(d, k) == IF k \in DOMAIN d THEN d[k] ELSE NoneVal
GetLeaf(d, k) == IF k \in DOMAIN d THEN d[k] ELSE "None"

\* bool(v)
Truthy(v) == IF v.kind = "dict" THEN DOMAIN v.sub # {} ELSE v.leaf \notin Falsy

\* deep_merge on two dicts of leaves: _val is 'v2 or v1' for every key
deep_merge_leaves(dict1, dict2) ==
    [k \in DOMAIN dict1 \cup DOMAIN dict2 |->
        IF GetLeaf(dict2, k) \notin Falsy THEN GetLeaf(dict2, k) ELSE GetLeaf(dict1, k)]

\* deep_merge._val
val(v1, v2) ==
    IF v1.kind = "dict" /\ v2.kind = "dict"
    THEN DictVal(deep_merge_leaves(v1.sub, v2.sub))
    ELSE IF Truthy(v2) THEN v2 ELSE v1

deep_merge(dict1, dict2) ==
    [k \in DOMAIN dict1 \cup DOMAIN dict2 |-> val(Get(dict1, k), Get(dict2, k))]

DmInit == \E d \in Confs, u \in Confs :
              dm = [pc |-> "merge", default_conf |-> d, conf_from_main |-> u,
                    conf |-> [k \in {} |-> NoneVal]]

InitDm ==
    /\ bundles = [q \in Qnames |-> << >>]
    /\ CoreInit
    /\ clk = ClkOff /\ net = NetOff /\ fw = FwOff
    /\ trg = Off /\ cal = Off /\ cmd = Off /\ wr = Off /\ disc = Off /\ DmInit /\ ipx = Off

notDm == << coreVars, clk, net, fw, trg, cal, cmd, wr, disc, ipx >>

\* plugin_load line 256: conf = deep_merge(default_conf, conf_from_main)
dm_merge ==
    /\ dm.pc = "merge"
    /\ dm' = [dm EXCEPT !.pc = "merged",
                        !.conf = deep_merge(dm.default_conf, dm.conf_from_main)]
    /\ UNCHANGED notDm

NextDm == dm_merge

SpecDm == InitDm /\ [][NextDm]_vars

\* --------------------------------------------------------------- ip_to_int
\* A string is the list of its characters.  The strings tried are three to
\* five fields joined by dots, with or without a CIDR suffix.
IpFields == {<< "0" >>, << "2", "5", "5" >>, << "2", "5", "6" >>, << " ", "1" >>, << "1", " " >>}
CidrSuffix == << "/", "8" >>
Digits == << "0", "1", "2", "3", "4", "5", "6", "7", "8", "9" >>

RECURSIVE JoinDots(_)
JoinDots(fields) ==
    IF Len(fields) = 1 THEN fields[1]
    ELSE fields[1] \o << "." >> \o JoinDots(Tail(fields))

IpStrings ==
    {JoinDots(f) \o sfx : f \in UNION {[1..n -> IpFields] : n \in 3..5},
                          sfx \in {<< >>, CidrSuffix}}

\* the index of the first c in str, 0 when there is none
RECURSIVE IndexOf(_, _, _)
IndexOf(str, c, from) ==
    IF from > Len(str) THEN 0
    ELSE IF str[from] = c THEN from ELSE IndexOf(str, c, from + 1)

\* str.split(sep)
RECURSIVE SplitAt(_, _)
SplitAt(str, sep) ==
    LET i == IndexOf(str, sep, 1)
    IN  IF i = 0 THEN << str >>
        ELSE << SubSeq(str, 1, i - 1) >> \o SplitAt(SubSeq(str, i + 1, Len(str)), sep)

\* clean_ip: a CIDR suffix is cut off
clean_ip(ip) == IF IndexOf(ip, "/", 1) # 0 THEN SplitAt(ip, "/")[1] ELSE ip

\* str.strip(): the blanks at both ends removed
RECURSIVE StripBlanks(_)
StripBlanks(str) ==
    IF str = << >> THEN str
    ELSE IF Head(str) = " " THEN StripBlanks(Tail(str))
    ELSE IF str[Len(str)] = " " THEN StripBlanks(SubSeq(str, 1, Len(str) - 1))
    ELSE str

DigitValue(c) == CHOOSE d \in 0..9 : Digits[d + 1] = c
IsDigit(c) == \E d \in 1..10 : Digits[d] = c

RECURSIVE DecimalValue(_)
DecimalValue(ds) ==
    IF ds = << >> THEN 0
    ELSE DecimalValue(SubSeq(ds, 1, Len(ds) - 1)) * 10 + DigitValue(ds[Len(ds)])

\* int(str): blanks around the number are ignored, a sign may lead, the rest
\* is decimal digits; None stands for ValueError
int(str) ==
    LET t == StripBlanks(str)
        signed == t # << >> /\ Head(t) \in {"+", "-"}
        ds == IF signed THEN Tail(t) ELSE t
    IN  IF ds = << >> \/ \E i \in 1..Len(ds) : ~IsDigit(ds[i])
        THEN [ok |-> FALSE, v |-> 0]
        ELSE [ok |-> TRUE,
              v |-> IF signed /\ Head(t) = "-" THEN 0 - DecimalValue(ds) ELSE DecimalValue(ds)]

\* ip_to_int.intff
intff(i) ==
    IF int(i).ok /\ 255 >= int(i).v /\ int(i).v >= 0
    THEN [ok |-> TRUE, v |-> int(i).v] ELSE [ok |-> FALSE, v |-> 0]

\* ip_to_int: the exception, or the number as its upper and lower 16 bits
ip_to_int(ip) ==
    LET parts == SplitAt(clean_ip(ip), ".")
    IN  IF Len(parts) # 4 \/ \E i \in 1..4 : ~intff(parts[i]).ok
        THEN [res |-> "IPInvalid", hi |-> 0, lo |-> 0]
        ELSE [res |-> "ok",
              hi |-> intff(parts[1]).v * 256 + intff(parts[2]).v,
              lo |-> intff(parts[3]).v * 256 + intff(parts[4]).v]

IpInit == \E ip \in IpStrings : ipx = [pc |-> "call", ip |-> ip,
                                       out |-> [res |-> "-", hi |-> 0, lo |-> 0]]

InitIp ==
    /\ bundles = [q \in Qnames |-> << >>]
    /\ CoreInit
    /\ clk = ClkOff /\ net = NetOff /\ fw = FwOff
    /\ trg = Off /\ cal = Off /\ cmd = Off /\ wr = Off /\ disc = Off /\ dm = Off /\ IpInit

notIp == << coreVars, clk, net, fw, trg, cal, cmd, wr, disc, dm >>

\* IPv4Dataset._value_type line 154: ip_to_int(value)
ip_call ==
    /\ ipx.pc = "call"
    /\ ipx' = [ipx EXCEPT !.pc = "done", !.out = ip_to_int(ipx.ip)]
    /\ UNCHANGED notIp

NextIp == ip_call

SpecIp == InitIp /\ [][NextIp]_vars

\* ------------------------------------------------------------------ claims
PassedChecks(r) == r.res \notin {"PluginNotFound", "PluginAlreadyLoaded"}

EntriesEmpty(q) == plugins[q] = None /\ schedules[q] = None /\ commands[q] = None

\* a step of caller c on the failure path of its load or unload: the except
\* block of plugin_load, or plugin_unload once it has raised
FailingStep(c) ==
    /\ call'[c] # call[c]
    /\ \/ call[c].pc \in {"l_exc_p", "l_exc_s", "l_exc_c"}
       \/ call[c].op = "unload" /\ Raised(call[c])

\* C11: a failing load or unload step of one plugin is isolated: it changes no
\* registry entry of another qname, the constructor goes on to load the
\* remaining qnames, and the scheduler thread is not brought down by it (it
\* never dies on the None a failing call has just stored).
C11_OthersUntouched ==
    \A c \in Callers : FailingStep(c) =>
        \A q \in Qnames \ {call[c].q} :
            /\ plugins'[q] = plugins[q]
            /\ schedules'[q] = schedules[q]
            /\ commands'[q] = commands[q]

C11_StartupGoesOn ==
    (call["main"].pc = "l_ret" /\ call["main"].outer = "ctor" /\ call["main"].res = "failed"
        /\ call'["main"] # call["main"])
    => (call'["main"].pc = "ctor" /\ call'["main"].todo = call["main"].todo)

C11_SchedulerSurvives ==
    (sched.pc = "s_fire" /\ sched'.pc = "s_crashed")
    => ~ \E c \in Callers :
            /\ call[c].op = "unload" /\ Raised(call[c])
            /\ call[c].q = Head(sched.cursor)
            /\ call[c].pc \in {"u_fin_s", "u_fin_c", "u_ret"}

C11_FailureIsolated ==
    [][C11_OthersUntouched /\ C11_StartupGoesOn /\ C11_SchedulerSurvives]_vars

C11_IsolatedExceptScheduler == [][C11_OthersUntouched /\ C11_StartupGoesOn]_vars

\* C12: once the run flag is cleared the scheduler thread ends by way of its
\* teardown: no step after the clearing ends the thread with an exception
\* instead, and when the thread has ended every worker that was on the active
\* list at teardown has ended or has been waited for.
C12_ShutdownDrains ==
    [][ /\ (coreRunning /\ ~shouldRun /\ sched.pc # "s_crashed") => sched'.pc # "s_crashed"
        /\ (sched.pc = "s_joined" /\ sched'.pc = "s_done") =>
               \A i \in Range(sched.joining) : workers[i].st = "done" \/ workers[i].waited
      ]_vars

\* the run can no longer fire the delay trigger: the thread has ended, or the
\* clock has passed the end of the trigger's window
DelayWindowOver ==
    \/ clk.pc = "crashed"
    \/ clk.pc \in {"loop", "sleep", "after"} /\ clk.now > clk.delay + Granularity

C13_NeverTwice == clk.nDelay <= 1

C13_NeverZero == DelayWindowOver => clk.nDelay >= 1

\* C13: a delay trigger fires exactly once per scheduler run: over every tick
\* timing of the loop its predicate holds at one tick, never at two, and
\* never at none once its window has passed.
C13_DelayFiresOnce == C13_NeverTwice /\ C13_NeverZero

\* C14: a delay trigger with delay_sec <= tick_interval/2 fires on the first
\* tick after scheduler start.
C14_ShortDelayFiresFirstTick ==
    (clk.pc # "off" /\ clk.delay <= Granularity /\ clk.nticks >= 1) => clk.first = "fired"

\* C15: while the scheduler runs, no stretch longer than P + 2G passes
\* without a firing of a periodic trigger with period P (G = tick_interval/2).
C15_PeriodicBoundedGap ==
    clk.pc \notin {"off", "crashed"} => clk.gap <= clk.period + 2 * Granularity

\* what a dispatch step of caller c has to do with the plugin at the head of
\* its list: one started worker, and one handle, per event trigger of the
\* plugin named for the dispatched event, when the plugin is loaded
DispatchStepExact(c) ==
    LET r == call[c]
        q == Head(r.targets)
        OnEvent(d) == d.kind = "event" /\ d.event = r.ev
        want == IF r.pc = "fe_inst" /\ plugins[q] # None
                THEN SelectSeq(bundles[q], OnEvent) ELSE << >>
        n == Len(workers)
    IN  /\ Len(workers') = n + Len(want)
        /\ SubSeq(workers', 1, n) = workers
        /\ \A k \in 1..Len(want) :
              /\ workers'[n + k].q = q
              /\ workers'[n + k].sched = want[k].sched
              /\ workers'[n + k].event = r.ev
              /\ workers'[n + k].inst = plugins[q]
              /\ workers'[n + k].st = "running"
        /\ call'[c].active = r.active \o [k \in 1..Len(want) |-> n + k]
        /\ (r.pc = "fe_sched" /\ plugins[q] # None) => call'[c].pc = "fe_inst"

\* C16: dispatching event e starts exactly one worker for each event trigger
\* on e of a loaded plugin of the list, none for any other trigger or for an
\* unloaded plugin, and hands back exactly the handles of those workers.
C16_DispatchExact ==
    [][\A c \in Callers :
          (call[c].pc \in {"fe_sched", "fe_inst"} /\ call'[c] # call[c])
              => DispatchStepExact(c)]_vars

\* two loaded plugins with one trigger each on e: the dispatch to all plugins
\* is about to hand back two handles, one worker of each plugin
C16_Witness ==
    \E c \in Callers :
        /\ call[c].op = "fire" /\ call[c].pc = "fe_extend"
        /\ Len(call[c].active) = 2
        /\ workers[call[c].active[1]].q = "q1" /\ workers[call[c].active[2]].q = "q2"
        /\ \A k \in 1..2 : workers[call[c].active[k]].event = EvUser

\* C17: after any sequence of add, remove and replace operations the
\* blacklist and the whitelist have no address in common, in the dataset
\* stores as in the sets of ordinance.ext.network.
C17_StoresDisjoint ==
    net.pc # "off" =>
        /\ net.db["blacklist"] \cap net.db["whitelist"] = {}
        /\ net.x["blacklist"] \cap net.x["whitelist"] = {}

\* this step is a read() of store s: by read_dbs at startup, or called later
ReadDbsStepOf(s) == net.pc = "read_" \o s /\ net'.pc # net.pc

ReadCallStepOf(s) ==
    net.pc = "run" /\ net'.nops = net.nops + 1 /\ net'.last.op = "read" /\ net'.last.store = s

\* C18: read() over a file written by flush() of a store holding S gives
\* exactly S (same members, same size); a fresh store reading an absent or a
\* header-only file is empty.
C18_RoundTrip ==
    [][\A s \in Stores : (ReadDbsStepOf(s) \/ ReadCallStepOf(s)) =>
          /\ net.src[s].known =>
                /\ net'.last.res = "ok"
                /\ net'.db[s] = net.src[s].set
                /\ Cardinality(net'.db[s]) = Cardinality(net.src[s].set)
          /\ (s \in net.fresh /\ (~net.file[s].exists \/ net.file[s].bytes = Header)) =>
                net'.last.res = "ok" /\ net'.db[s] = {}]_vars

\* a fresh store has just read back the two-member set an earlier process
\* flushed
C18_Witness ==
    /\ net.pc # "off" /\ net.last.op = "read_dbs" /\ net.last.res = "ok" /\ net.last.fresh
    /\ net.src[net.last.store].known
    /\ net.db[net.last.store] = Addrs

\* file f exists and does not begin with the header
LacksHeader(f) ==
    f.exists /\ (Len(f.bytes) < Len(Header) \/ SubSeq(f.bytes, 1, Len(Header)) # Header)

\* C19: read() of a store whose file does not begin with the header fails
\* with the corrupt-store error and leaves the store as it was; read_dbs then
\* empties that store, leaves the other one alone and goes on, so that when
\* it is done a corrupt store is empty and a store whose file was written by
\* flush holds that file's set.
C19_CorruptStoreRecovered ==
    [][\A s \in Stores :
          /\ (ReadCallStepOf(s) /\ LacksHeader(net.file[s])) =>
                net'.last.res = "OSError" /\ net'.db = net.db
          /\ (ReadDbsStepOf(s) /\ LacksHeader(net.file[s])) =>
                /\ net'.last.res = "OSError"
                /\ net'.db[s] = {} /\ net'.db[Other(s)] = net.db[Other(s)]
                /\ net'.pc = IF s = "blacklist" THEN "read_whitelist" ELSE "run"
          /\ (ReadDbsStepOf("whitelist") /\ net'.pc = "run") =>
                /\ LacksHeader(net.file[s]) => net'.db[s] = {}
                /\ net.src[s].known => net'.db[s] = net.src[s].set]_vars

\* startup is over: the blacklist file was corrupt and its store is empty,
\* the whitelist holds the set its file was flushed with
C19_Witness ==
    /\ net.pc = "run" /\ net.last.op = "read_dbs"
    /\ LacksHeader(net.file["blacklist"]) /\ net.db["blacklist"] = {}
    /\ net.src["whitelist"].known /\ net.src["whitelist"].set # {}
    /\ net.db["whitelist"] = net.src["whitelist"].set

\* C20: from any prior kernel state setup_iptables returns True, leaving a
\* chain and an address-set it has made itself, the chain empty, and a jump
\* to the chain from INPUT.
C20_FirewallSetupFromAnyState ==
    fw.pc = "returned" =>
        /\ fw.ret = "True"
        /\ fw.chain /\ fw.newChain /\ fw.rules = 0 /\ fw.drop = 0
        /\ fw.set /\ fw.newSet
        /\ fw.jumps >= 1

\* C21: when an install command of the firewall setup has failed
\* (setup_iptables returned False), construction does not go on: the core of
\* that run never reports itself as running.
C21_FirewallFailureAbortsStartup ==
    fw.pc # "off" => ~(fw.ret = "False" /\ fw.core = "running")

\* the registration step asks for a trigger equal in kind and data to one the
\* callback holds, under an id that is free
DuplicateAsked ==
    /\ trg.pc = "run" /\ trg' # trg
    /\ \E i \in 1..Len(trg.triggers) : TriggerEq(trg'.last.new, trg.triggers[i].trig)
    /\ (IF trg'.last.new.id = NoId THEN trg'.last.id ELSE trg'.last.new.id)
           \notin TrigKeys(trg.triggers)

\* C22: registering on a callback a second trigger of the same kind with the
\* same data (id and daemonic aside) fails with the scheduler error for a
\* duplicate trigger, and the callback's trigger set is as before.
C22_DuplicateTriggerRejected ==
    [][DuplicateAsked =>
          /\ trg'.last.res = "SchedulerError: already registered"
          /\ trg'.triggers = trg.triggers]_vars

\* the window of an alignment, in seconds
WindowOf(align) ==
    IF align = "day" THEN DayTotal ELSE IF align = "week" THEN WeekTotal ELSE MonthTotal

\* C24: a calendar registration whose seconds_into is negative or at least the
\* window length succeeds, and the trigger stored has it reduced modulo the
\* window length, within 0 <= seconds_into < window.
C24_CalendarOffsetWrapped ==
    (/\ trg.pc = "run"
     /\ trg.last.op = "add_calendar_trigger"
     /\ trg.last.new.align \in {"day", "week", "month"}
     /\ trg.last.res # "SchedulerError: id already defined"
     /\ (trg.last.new.sec < 0 \/ trg.last.new.sec >= WindowOf(trg.last.new.align)))
    => /\ trg.last.res = "ok"
       /\ \E i \in 1..Len(trg.triggers) :
             /\ trg.triggers[i].trig.kind = "calendar"
             /\ trg.triggers[i].trig.align = trg.last.new.align
             /\ trg.triggers[i].trig.sec = trg.last.new.sec % WindowOf(trg.last.new.align)

\* seconds from the start of the present day, week (Monday) or month to now
IntoPeriod(align, now) ==
    IF align = "day" THEN now.sec
    ELSE IF align = "week" THEN now.weekday * DayTotal + now.sec
    ELSE (now.day - 1) * DayTotal + now.sec

\* C23: the calendar predicate has an answer for each alignment (day, week,
\* month) at every local time, and the answer is yes exactly when
\* period_start + seconds_into lies within granularity of now.
C23_CalendarPredicateDefined ==
    (cal.pc = "run" /\ cal.res # "-") =>
        /\ cal.res \in {"run", "no"}
        /\ cal.res = "run" <=>
               Abs(cal.into - IntoPeriod(cal.align, cal.now)) <= cal.granularity

\* C23, the case of a timezone-free clock and a day or week whose start lies in
\* the present month
C23_DayAlignedNaive ==
    (/\ cal.pc = "run" /\ cal.res # "-" /\ ~cal.now.aware
     /\ cal.align \in {"day", "week"} /\ cal.now.day - cal.now.weekday >= 1) =>
        /\ cal.res \in {"run", "no"}
        /\ cal.res = "run" <=>
               Abs(cal.into - IntoPeriod(cal.align, cal.now)) <= cal.granularity

\* C25: Core.command never raises past its caller, whatever the line and the
\* state of the core, 'stop' with a plugin that is not loaded included.
C25_CommandNeverRaises == cmd.pc # "raised"

\* the token the command table gives a line
TokenOf(line) ==
    IF IsEmpty(line) THEN "0"
    ELSE IF Is(line, "stop") THEN "-1"
    ELSE IF Is(line, "status") THEN "0"
    ELSE IF Len(line.words) > 1 /\ line.words[1] = "alert" THEN "0"
    ELSE "-2"

\* C26: command(line) returns 0 for the empty line, -1 for 'stop', 0 for
\* 'status', 0 for 'alert' with words after it and -2 for anything else, and
\* the caller's loop ends exactly when the token is -1.
C26_CommandTokens ==
    /\ cmd.pc = "token" => cmd.tok = TokenOf(cmd.inp)
    /\ cmd.pc = "ended" => cmd.tok \in {"-1", "-"}

\* C26 but for the empty line, for which command() returns None, and for the
\* calls of 'stop' that end with an exception
C26_TokensButEmpty ==
    /\ (cmd.pc = "token" /\ ~IsEmpty(cmd.inp)) => cmd.tok = TokenOf(cmd.inp)
    /\ cmd.pc = "ended" => cmd.tok \in {"-1", "-"}

\* the names with an instance on the enabled list
EnabledNames(n) == {n.enabled[i] : i \in 1..Len(n.enabled)}

\* C27: enabling a sink that is already enabled fails with the
\* already-enabled error, disabling a sink of unknown name fails with the
\* not-found error, and either leaves the enabled list as it was.
C27_SinkErrors ==
    [][(wr.pc = "run" /\ wr'.nops = wr.nops + 1) =>
          /\ (wr'.last.op = "enable" /\ wr'.last.name \in EnabledNames(wr)) =>
                 (wr'.last.res = "WriterAlreadyEnabled" /\ wr'.enabled = wr.enabled)
          /\ (wr'.last.op = "disable" /\ wr'.last.name \notin wr.classes) =>
                 (wr'.last.res = "WriterNotFound" /\ wr'.enabled = wr.enabled)]_vars

C27_Witness ==
    /\ wr.pc = "run"
    /\ wr.last.op = "enable"
    /\ wr.last.res = "WriterAlreadyEnabled"
    /\ wr.last.name \in EnabledNames(wr)

\* disable of a name no type is registered under has been refused
C27_WitnessDisable ==
    /\ wr.pc = "run"
    /\ wr.last.op = "disable"
    /\ wr.last.res = "WriterNotFound"
    /\ wr.last.name \notin wr.classes

\* C28: for each sink, at most one producer is inside handle() at a time,
\* however many producers write at once.
C28_HandleExclusive ==
    wr.pc = "run" => \A w \in WriterNames : Cardinality(wr.inside[w]) <= 1

\* one producer is inside a sink's handle() while another waits for that sink
C28_Witness ==
    /\ wr.pc = "run"
    /\ \E p \in Producers, q \in Producers :
          /\ p # q
          /\ wr.prod[p].pc = "handle" /\ wr.prod[q].pc = "acquire"
          /\ wr.enabled[wr.prod[p].i] = wr.enabled[wr.prod[q].i]
          /\ p \in wr.inside[wr.enabled[wr.prod[p].i]]

\* the names of the listing that are directories of valid characters, other
\* than 'disabled'
Discoverable(l) ==
    {l[i].name : i \in {j \in 1..Len(l) :
        l[j].isdir /\ AllValidChars(l[j].name) /\ l[j].name # DisabledName}}

\* C29: the discovery scan returns exactly the names under the plugin root
\* that are directories, are made of qname characters only and are not
\* 'disabled' (a name met more than once is left out).
C29_DiscoveryExact ==
    disc.pc = "returned" => disc.valid_qnames = Discoverable(disc.listing)

\* C29 without the directory condition: what the scan does return
C29_ExactButFiles ==
    disc.pc = "returned" =>
        disc.valid_qnames =
            {disc.listing[i].name : i \in {j \in 1..Len(disc.listing) :
                /\ AllValidChars(disc.listing[j].name)
                /\ disc.listing[j].name # DisabledName}}

\* C30: in deep_merge(default, user) every leaf key of user carries the user's
\* value, falsy ones (0, False, '') included; where both hold a dict the merge
\* goes one level down; a key user lacks keeps the default.
C30_UserValueWins ==
    dm.pc = "merged" =>
        LET d == dm.default_conf
            u == dm.conf_from_main
            m == dm.conf
        IN  /\ DOMAIN m = DOMAIN d \cup DOMAIN u
            /\ \A k \in DOMAIN m :
                  IF k \notin DOMAIN u THEN m[k] = d[k]
                  ELSE IF u[k].kind = "leaf" THEN m[k] = u[k]
                  ELSE IF k \notin DOMAIN d \/ d[k].kind = "leaf" THEN m[k] = u[k]
                  ELSE /\ m[k].kind = "dict"
                       /\ DOMAIN m[k].sub = DOMAIN d[k].sub \cup DOMAIN u[k].sub
                       /\ \A j \in DOMAIN m[k].sub :
                             m[k].sub[j] = IF j \in DOMAIN u[k].sub
                                           THEN u[k].sub[j] ELSE d[k].sub[j]

\* C30 for user configurations that hold no falsy leaf and no empty dict
C30_TruthyUserValueWins ==
    (/\ dm.pc = "merged"
     /\ \A k \in DOMAIN dm.conf_from_main :
           /\ Truthy(dm.conf_from_main[k])
           /\ \A j \in DOMAIN dm.conf_from_main[k].sub :
                 dm.conf_from_main[k].sub[j] \notin Falsy)
    => LET d == dm.default_conf
           u == dm.conf_from_main
           m == dm.conf
       IN  /\ DOMAIN m = DOMAIN d \cup DOMAIN u
           /\ \A k \in DOMAIN m :
                 IF k \notin DOMAIN u THEN m[k] = d[k]
                 ELSE IF u[k].kind = "leaf" THEN m[k] = u[k]
                 ELSE IF k \notin DOMAIN d \/ d[k].kind = "leaf" THEN m[k] = u[k]
                 ELSE /\ m[k].kind = "dict"
                      /\ DOMAIN m[k].sub = DOMAIN d[k].sub \cup DOMAIN u[k].sub
                      /\ \A j \in DOMAIN m[k].sub :
                            m[k].sub[j] = IF j \in DOMAIN u[k].sub
                                          THEN u[k].sub[j] ELSE d[k].sub[j]

\* C31: union(other) returns the set of the values held by the store or by
\* other, for every content and every other, and leaves the store as it was:
\* the call ends normally.
C31_UnionReturns ==
    (net.pc = "run" /\ net.last.op = "union") => net.last.res = "ok"

Ip0000 == << "0", ".", "0", ".", "0", ".", "0" >>
Ip255s == JoinDots([i \in 1..4 |-> << "2", "5", "5" >>])
Octet256 == << "2", "5", "6" >>

\* the dotted part of the string: what precedes a CIDR suffix
Dotted(ip) == SplitAt(ip, "/")[1]

\* C32: ip_to_int accepts 0.0.0.0 and 255.255.255.255 and rejects with
\* IPInvalid every string with an octet above 255, with fewer or more than
\* four octets, or with whitespace at its start or its end.
C32_IpToIntStrict ==
    ipx.pc = "done" =>
        /\ ipx.ip \in {Ip0000, Ip255s} => ipx.out.res = "ok"
        /\ (\/ Octet256 \in Range(SplitAt(Dotted(ipx.ip), "."))
            \/ Len(SplitAt(Dotted(ipx.ip), ".")) # 4
            \/ Head(ipx.ip) = " "
            \/ ipx.ip[Len(ipx.ip)] = " ") => ipx.out.res = "IPInvalid"

\* C32 without the whitespace case
C32_ButWhitespace ==
    ipx.pc = "done" =>
        /\ ipx.ip \in {Ip0000, Ip255s} => ipx.out.res = "ok"
        /\ (\/ Octet256 \in Range(SplitAt(Dotted(ipx.ip), "."))
            \/ Len(SplitAt(Dotted(ipx.ip), ".")) # 4) => ipx.out.res = "IPInvalid"

\* the teardown steps of the stop() call made last, in the order they ended
LastStop ==
    LET apis == {i \in 1..Len(stopLog) : stopLog[i] = << "api", "-" >>}
    IN  IF apis = {} THEN stopLog
        ELSE SubSeq(stopLog, CHOOSE i \in apis : \A j \in apis : j <= i, Len(stopLog))

\* in log, every entry x is preceded by an entry y
Before(log, y, x) ==
    \A i \in 1..Len(log) : log[i] = x => \E j \in 1..(i - 1) : log[j] = y

\* C33: Core.stop() tears down in order: the API viewer is stopped before any
\* plugin is unloaded, every plugin's unload is over before the run flag is
\* cleared, the scheduler thread is joined before the address sets are
\* flushed, and both sets are flushed before a sink is closed.
C33_StopOrder ==
    /\ stopLog # << >> => stopLog[1] = << "api", "-" >>
    /\ \A q \in Qnames : Before(LastStop, << "unload", q >>, << "flag", "-" >>)
    /\ Before(LastStop, << "flag", "-" >>, << "join", "-" >>)
    /\ \A s \in Stores :
          /\ Before(LastStop, << "join", "-" >>, << "flush", s >>)
          /\ Before(LastStop, << "flush", s >>, << "sinks", "-" >>)
    /\ \A c \in Callers : call[c].pc = "st_flag" => \A q \in Qnames : EntriesEmpty(q)

\* a stop() has run to the closing of the sinks, both plugins unloaded on the way
C33_Witness ==
    /\ stopLog # << >>
    /\ stopLog[Len(stopLog)] = << "sinks", "-" >>
    /\ \A q \in Qnames : \E i \in 1..Len(stopLog) : stopLog[i] = << "unload", q >>

\* what a tick has to do with the plugin at the head of its cursor: it goes on
\* (it does not end with an exception), it starts one worker per tick trigger
\* found due and no other, each with the plugin's instance, and it puts
\* exactly their handles on the active list
TickStepExact ==
    LET q == Head(sched.cursor)
        defs == TickDefs(q)
        n == Len(workers)
        started == SubSeq(workers', n + 1, Len(workers'))
    IN  /\ sched'.pc # "s_crashed"
        /\ Len(workers') >= n
        /\ SubSeq(workers', 1, n) = workers
        /\ \E mask \in SUBSET (1..Len(defs)) :
              started = NewWorkers(Pick(defs, mask), q, plugins[q],
                                   [op |-> "tick", q |-> "-"])
        /\ \A i \in 1..Len(started) :
              started[i].inst # None /\ started[i].kind # "event"
        /\ activeThreads' = activeThreads \cup ((n + 1)..Len(workers'))

\* C34: a tick that has read a plugin's scheduled functions starts exactly one
\* worker for each of its calendar, delay and periodic triggers that is due,
\* with that plugin's instance, and puts the handle on the active-worker
\* list; it starts none for an event trigger or a trigger that is not due.
C34_TickSpawnsExact ==
    [][ (sched.pc = "s_fire" /\ sched' # sched) => TickStepExact ]_vars

\* C35: a tick in which a trigger's predicate raises does not end the tick
\* loop: the scheduler goes on to the sleep that follows the tick, and the
\* periodic trigger that is due at that tick still fires.
C35_TickSurvivesPredicateError ==
    [][ (clk.pc = "tick" /\ clk' # clk) =>
           /\ clk'.pc = "after"
           /\ periodic_trigger_should_run(clk.period, clk.now, Granularity)
                 => clk'.lastPeriodic = clk.now
      ]_vars

\* the active-worker list changes only in a step of the scheduler thread
C36_OnlyScheduler ==
    [][ activeThreads' # activeThreads => call' = call ]_vars

\* a handle leaves the active-worker list only when its worker has ended
C36_NoHandleLost ==
    [][ \A i \in activeThreads : i \notin activeThreads' => ~Alive(i) ]_vars

\* the list the teardown drains holds every worker that is still running
C36_DrainSeesAll ==
    [][ (sched.pc = "s_teardown" /\ sched' # sched) =>
           \A i \in 1..Len(workers) : Alive(i) => i \in activeThreads ]_vars

\* C36: the active-worker list is changed by the scheduler thread alone, the
\* handle of a running worker is never dropped from it by a prune that runs
\* beside an event dispatch, and at shutdown the list the scheduler drains
\* holds every worker still running.
C36_ActiveListOwned == C36_OnlyScheduler /\ C36_NoHandleLost /\ C36_DrainSeesAll

\* C37: the sleep that follows a tick is never negative: when the work of the
\* tick took longer than subtick_interval the scheduler sleeps 0 seconds and
\* the loop continues.
C37_SleepNeverNegative ==
    [][ (clk.pc = "after" /\ clk' # clk) =>
           /\ clk'.pc = "loop"
           /\ clk'.now >= clk.now
      ]_vars

\* the trigger a callback holds under key k, as a set (empty when k is free)
StoredUnder(T, k) == {T[i].trig : i \in {j \in 1..Len(T) : T[j].key = k}}

\* C38: a registration that succeeds adds exactly one trigger: the callback
\* holds one trigger more than before, every trigger it held is still stored
\* under its id, the new trigger is stored under the id handed back, and the
\* id field of every stored trigger is the key it is stored under.
C38_RegistrationAddsOne ==
    [][ (trg.pc = "run" /\ trg' # trg /\ trg'.last.res = "ok") =>
           /\ Len(trg'.triggers) = Len(trg.triggers) + 1
           /\ \A k \in TrigKeys(trg.triggers) :
                 StoredUnder(trg'.triggers, k) = StoredUnder(trg.triggers, k)
           /\ \E t \in StoredUnder(trg'.triggers, trg'.last.id) :
                 TriggerEq(t, trg'.last.new)
           /\ \A i \in 1..Len(trg'.triggers) :
                 trg'.triggers[i].trig.id = trg'.triggers[i].key
      ]_vars

\* C39: however many times the blacklist has been pushed to the kernel, after
\* a push that succeeded the ORDINANCE chain holds exactly one DROP rule
\* matching ORDINANCE_BLACKLIST.
C39_OneDropRule ==
    (fw.pc = "running" /\ fw.push = "ok") => fw.drop = 1

\* C40: once disable(name) has returned, the sink is off the enabled list
\* (get_enabled() does not name it) and the fan-out hands no further message
\* to the closed sink.
C40_DisabledSinkGetsNothing ==
    [][ /\ (wr.pc = "run" /\ wr'.nops = wr.nops + 1
              /\ wr'.last.op = "disable" /\ wr'.last.res = "ok")
           => wr'.last.name \notin EnabledNames(wr')
        /\ \A p \in Producers :
              (wr.pc = "run" /\ wr.prod[p].pc = "acquire" /\ wr'.prod[p].pc = "handle")
              => wr.enabled[wr.prod[p].i] \notin wr.closed
      ]_vars

\* C1: once plugin_unload(Q) has returned, no step starts a worker for a
\* trigger of Q (neither a tick, even one already under way, nor an event
\* dispatch) until a load of Q begins.
C1_NoFiringAfterUnload ==
    [][\A i \in (Len(workers) + 1)..Len(workers') : workers'[i].q \notin unloaded]_vars

\* C2: a qname is loaded at most once at any moment: under any interleaving of
\* calls from several threads, no plugin_load installs an instance over an
\* installed one (the second load fails and installs nothing).
C2_LoadedAtMostOnce ==
    [][\A q \in Qnames : plugins[q] # None => plugins'[q] \in {plugins[q], None}]_vars

\* C3: no reader sees a qname's schedules without its instance: the scheduler
\* tick never holds scheduled functions together with an empty instance, and
\* no callback is started with a missing plugin instance.
C3_ReadersSeeWholePlugins ==
    /\ sched.pc = "s_fire" => sched.inst # None
    /\ \A i \in 1..Len(workers) : workers[i].inst # None

\* C4: Core.stop() on a running core runs to completion whatever subset of
\* the qnames is loaded: it returns normally with every plugin unloaded, the
\* run flag cleared, the scheduler joined, both sets flushed, the sinks closed.
C4_StopCompletes ==
    \A c \in Callers :
        (call[c].pc = "st_ret" /\ call[c].res # "AlreadyStopped") =>
            /\ call[c].res = "ok"
            /\ \A q \in Qnames : EntriesEmpty(q)
            /\ ~shouldRun
            /\ {<< "join", "-" >>, << "flush", "blacklist" >>, << "flush", "whitelist" >>,
                << "sinks", "-" >>} \subseteq Range(stopLog)

\* C5: when a step of plugin_load(Q) fails, nothing of Q is retained: the three
\* registry entries are empty and sys.modules holds no entry for Q.
C5_FailedLoadLeavesNothing ==
    \A c \in Callers :
        (call[c].pc = "l_ret" /\ call[c].res = "failed") =>
            EntriesEmpty(call[c].q) /\ sysModules[call[c].q] = None

C7_UnloadEvictsModule ==
    \A c \in Callers :
        (call[c].pc = "u_ret" /\ PassedChecks(call[c])) => sysModules[call[c].q] = None

\* C8: plugin_unload(Q) drains before it removes: from the first removal on,
\* every worker of its plugin.stop dispatch still held by the call has been
\* joined for the timeout, and one that ends within the timeout has ended.
C8_UnloadDrainsBeforeRemoving ==
    \A c \in Callers :
        call[c].pc \in {"u_fin_s", "u_fin_c", "u_ret"} =>
            \A i \in Range(call[c].active) :
                /\ workers[i].st = "done" \/ workers[i].waited
                /\ workers[i].dur = "fast" => workers[i].st = "done"

\* C9: when plugin_unload(Q) returns, every worker started for Q, by a tick or
\* by an event dispatch, has ended or has been waited on for the drain timeout.
C9_NoWorkerOutlivesUnload ==
    \A c \in Callers :
        (call[c].pc = "u_ret" /\ PassedChecks(call[c])) =>
            \A i \in 1..Len(workers) :
                workers[i].q = call[c].q => workers[i].st = "done" \/ workers[i].waited

StartDefs(q) == LET IsStart(d) == d.kind = "event" /\ d.event = EvStart
                IN  SelectSeq(SchedDefs(q), IsStart)

StartedFor(id) == {i \in 1..Len(workers) : workers[i].cause.op = "load" /\ workers[i].inst = id}

\* C10: lifecycle events are targeted.  A worker started by plugin_load(Q) runs
\* a plugin.start trigger of Q, one started by plugin_unload(Q) a plugin.stop
\* trigger of Q; a load starts nothing before its instance is installed,
\* nothing when it fails, and exactly one worker per plugin.start trigger of Q
\* when it succeeds.
C10_LifecycleEventsTargeted ==
    /\ \A i \in 1..Len(workers) :
        LET w == workers[i] IN
        /\ w.cause.op = "load" => w.event = EvStart /\ w.q = w.cause.q
        /\ w.cause.op = "unload" => w.event = EvStop /\ w.q = w.cause.q
    /\ \A c \in Callers :
        LET r == call[c] IN
        r.op = "load" /\ r.n # None =>
            /\ r.pc \in {"l_exec", "l_inst", "l_scheds", "l_cmds", "l_exc_p", "l_exc_s",
                         "l_exc_c"} => StartedFor(r.n) = {}
            /\ r.pc = "l_ret" =>
                Cardinality(StartedFor(r.n)) =
                    IF r.res = "ok" THEN Len(StartDefs(r.q)) ELSE 0

C10_Witness ==
    /\ plugins["q2"] # None
    /\ \E c \in Callers : call[c].pc = "u_ret" /\ call[c].q = "q1" /\ call[c].res = "ok"
    /\ \E i \in 1..Len(workers) : workers[i].cause = [op |-> "unload", q |-> "q1"]
    /\ \E i \in 1..Len(workers) : workers[i].cause = [op |-> "load", q |-> "q1"]

====
